---------------------------- MODULE Spec2Model ----------------------------
(***************************************************************************)
(* Model of the historical-data request validator and the technical-      *)
(* indicator tools of src/src/index.ts (groww-mcp-server).                 *)
(*                                                                         *)
(* A JavaScript Number is modelled as a fraction [n, d] of integers:       *)
(*   d > 0          the finite value n/d (kept in lowest terms),           *)
(*   d = 0, n = 0   NaN,                                                   *)
(*   d = 0, n = 1   +Infinity,      d = 0, n = -1   -Infinity.             *)
(* Finite arithmetic is exact (the rounding of IEEE doubles is not         *)
(* modelled, nor is the sign of zero: every zero divisor in the modelled   *)
(* code is a difference or a sum of equal operands, that is +0).           *)
(***************************************************************************)
EXTENDS Integers, Sequences, FiniteSets, TLC

VARIABLES
    pc,          \* position of the tool call: "idle", "awaiting", "done"
    tool,        \* name of the tool being called
    args,        \* its parameters
    now,         \* what new Date() returned inside validateHistoricalDataRequest
    validation,  \* the handler's local `validation`
    fetches,     \* provider requests (makeRequest) issued for this call
    payload,     \* what makeRequest resolved to (the handler's `data`)
    result,      \* what the handler returned
    calls,       \* the same fields for each of the calls running side by side
    instrumentsData,    \* the module's `instrumentsData`
    instrumentsLoaded,  \* the module's `instrumentsLoaded`
    loads,       \* the runs of loadInstruments and the calls awaiting them
    lookup       \* what the last search_instruments or get_instrument_details returned

vars == <<pc, tool, args, now, validation, fetches, payload, result, calls,
          instrumentsData, instrumentsLoaded, loads, lookup>>

catalog == <<instrumentsData, instrumentsLoaded, loads, lookup>>

-----------------------------------------------------------------------------
(* JavaScript Number arithmetic *)

AbsInt(i) == IF i < 0 THEN -i ELSE i

SignInt(i) == IF i < 0 THEN -1 ELSE IF i > 0 THEN 1 ELSE 0

RECURSIVE GCD(_, _)
GCD(a, b) == IF b = 0 THEN a ELSE GCD(b, a % b)

NaN == [n |-> 0, d |-> 0]

PosInf == [n |-> 1, d |-> 0]

NegInf == [n |-> -1, d |-> 0]

\* the Number n/d; a zero d gives NaN or an infinity as IEEE division does
Frac(n, d) ==
    IF d = 0 THEN [n |-> SignInt(n), d |-> 0]
    ELSE LET g == GCD(AbsInt(n), AbsInt(d))
             s == SignInt(d)
         IN  [n |-> (s * n) \div g, d |-> (s * d) \div g]

Num(i) == [n |-> i, d |-> 1]

IsNaN(x) == x.d = 0 /\ x.n = 0

IsInf(x) == x.d = 0 /\ x.n # 0

IsFinite(x) == x.d > 0

IsZero(x) == x.d > 0 /\ x.n = 0

Neg(x) == [n |-> -x.n, d |-> x.d]

Add(x, y) ==
    IF IsNaN(x) \/ IsNaN(y) THEN NaN
    ELSE IF IsInf(x) /\ IsInf(y) THEN (IF x.n = y.n THEN x ELSE NaN)
    ELSE IF IsInf(x) THEN x
    ELSE IF IsInf(y) THEN y
    ELSE LET g == GCD(x.d, y.d)     \* over the least common denominator
         IN  Frac(x.n * (y.d \div g) + y.n * (x.d \div g), (x.d \div g) * y.d)

Sub(x, y) == Add(x, Neg(y))

Mul(x, y) ==
    IF IsNaN(x) \/ IsNaN(y) THEN NaN
    ELSE IF IsInf(x) \/ IsInf(y)
         THEN [n |-> SignInt(x.n) * SignInt(y.n), d |-> 0]
    ELSE LET g1 == GCD(AbsInt(x.n), y.d)     \* cancelled before multiplying
             g2 == GCD(AbsInt(y.n), x.d)
         IN  Frac((x.n \div g1) * (y.n \div g2), (x.d \div g2) * (y.d \div g1))

Div(x, y) ==
    IF IsNaN(x) \/ IsNaN(y) THEN NaN
    ELSE IF IsInf(y) THEN (IF IsInf(x) THEN NaN ELSE Num(0))
    ELSE IF IsInf(x) THEN [n |-> x.n * (IF y.n < 0 THEN -1 ELSE 1), d |-> 0]
    ELSE IF y.n = 0 THEN Frac(x.n, 0)
    ELSE Mul(x, Frac(y.d, y.n))

\* x < y, x <= y, x === y of JavaScript: false as soon as an operand is NaN
Lt(x, y) ==
    /\ ~IsNaN(x)
    /\ ~IsNaN(y)
    /\ IF IsInf(x) THEN x.n < 0 /\ y # x
       ELSE IF IsInf(y) THEN y.n > 0
       ELSE LET g == GCD(x.d, y.d)
            IN  x.n * (y.d \div g) < y.n * (x.d \div g)

Eq(x, y) == ~IsNaN(x) /\ ~IsNaN(y) /\ x = y

Le(x, y) == Lt(x, y) \/ Eq(x, y)

Gt(x, y) == Lt(y, x)

Ge(x, y) == Le(y, x)

\* Math.abs, Math.max, Math.min, Math.ceil
Abs(x) == [n |-> AbsInt(x.n), d |-> x.d]

Max2(x, y) == IF IsNaN(x) \/ IsNaN(y) THEN NaN ELSE IF Lt(x, y) THEN y ELSE x

Min2(x, y) == IF IsNaN(x) \/ IsNaN(y) THEN NaN ELSE IF Lt(y, x) THEN y ELSE x

Ceil(x) ==
    IF ~IsFinite(x) THEN x
    ELSE LET q == x.n \div x.d    \* floor, as d > 0
         IN  IF q * x.d = x.n THEN Num(q) ELSE Num(q + 1)


\* Number.prototype.toFixed(1): the value rounded to one decimal, half up
ToFixed1(x) ==
    IF ~IsFinite(x) THEN x
    ELSE LET t == (2 * 10 * x.n + x.d) \div (2 * x.d)    \* floor(10x + 1/2)
         IN  Frac(t, 10)

\* the value null, and JavaScript's truthiness of a Number or null
Null == [n |-> 0, d |-> -1]

Truthy(v) == v # Null /\ ~IsNaN(v) /\ ~IsZero(v)

\* Array.prototype.slice(a, b): negative positions count from the end
\* (0-based positions of the code, 1-based sequences here)
SlicePos(len, i) == IF i < 0 THEN (IF len + i < 0 THEN 0 ELSE len + i)
                    ELSE IF i > len THEN len ELSE i

Slice(s, a, b) ==
    LET from == SlicePos(Len(s), a)
        to   == SlicePos(Len(s), b)
    IN  IF to <= from THEN <<>> ELSE SubSeq(s, from + 1, to)

\* s[i] of the code used as a Number: undefined (NaN in arithmetic) out of range
At(s, i) == IF i >= 0 /\ i < Len(s) THEN s[i + 1] ELSE NaN

\* s.reduce((a, b) => a + b, 0)
RECURSIVE Sum(_)
Sum(s) == IF s = <<>> THEN Num(0) ELSE Add(Sum(SubSeq(s, 1, Len(s) - 1)), s[Len(s)])

-----------------------------------------------------------------------------
(* validateHistoricalDataRequest *)

\* Date.getTime() is counted in hours here, not milliseconds (a request spans
\* up to 1080 days): 1000 * 60 * 60 * 24 ms is DayLen, 1000 * 60 * 60 * 24 * 30
\* ms is MonthLen.
DayLen == 24

MonthLen == 720

SupportedIntervals == {1, 5, 10, 60, 240, 1440, 10080}

constraints ==
    [i \in SupportedIntervals |->
        CASE i = 1     -> [maxDuration |-> Num(3),    maxHistoryMonths |-> Num(3)]
          [] i = 5     -> [maxDuration |-> Num(15),   maxHistoryMonths |-> Num(3)]
          [] i = 10    -> [maxDuration |-> Num(30),   maxHistoryMonths |-> Num(3)]
          [] i = 60    -> [maxDuration |-> Num(150),  maxHistoryMonths |-> Num(3)]
          [] i = 240   -> [maxDuration |-> Num(365),  maxHistoryMonths |-> Num(3)]
          [] i = 1440  -> [maxDuration |-> Num(1080), maxHistoryMonths |-> Null]
          [] i = 10080 -> [maxDuration |-> PosInf,    maxHistoryMonths |-> Null]]

\* startDate, endDate and clock are the getTime() of the three dates (NaN for
\* an Invalid Date)
durationDays_Floor(startDate, endDate) ==
    LET x == Div(Sub(endDate, startDate), Num(DayLen))
    IN  IF IsFinite(x) THEN Num(x.n \div x.d) ELSE x

durationDays(startDate, endDate) == Ceil(Div(Sub(endDate, startDate), Num(DayLen)))

monthsAgo(startDate, clock) == Div(Sub(clock, startDate), Num(MonthLen))

Valid == [valid |-> TRUE, error |-> "none", max |-> Null, requested |-> Null]

Rejected(why, max, requested) ==
    [valid |-> FALSE, error |-> why, max |-> max, requested |-> requested]

durationExceeds(constraint, startDate, endDate) ==
    Gt(durationDays(startDate, endDate), constraint.maxDuration)

historyExceeds_IgnoresNull(constraint, startDate, clock) ==
    Gt(monthsAgo(startDate, clock),
       IF Truthy(constraint.maxHistoryMonths) THEN constraint.maxHistoryMonths ELSE Num(3))

historyExceeds(constraint, startDate, clock) ==
    /\ Truthy(constraint.maxHistoryMonths)
    /\ Gt(monthsAgo(startDate, clock), constraint.maxHistoryMonths)

unsupported_OmitsWeekly(interval_in_minutes) ==
    interval_in_minutes \notin (DOMAIN constraints \ {10080})

\* !constraints[interval_in_minutes]
unsupported(interval_in_minutes) == interval_in_minutes \notin DOMAIN constraints

\* validateHistoricalDataRequest checking the age before the duration
validateHistoricalDataRequest_AgeFirst(interval_in_minutes, start_time, end_time, clock) ==
    IF unsupported(interval_in_minutes)
    THEN Rejected("Unsupported interval", Null, Num(interval_in_minutes))
    ELSE LET constraint == constraints[interval_in_minutes]
         IN  IF historyExceeds(constraint, start_time, clock)
             THEN Rejected("Data too old", constraint.maxHistoryMonths,
                           ToFixed1(monthsAgo(start_time, clock)))
             ELSE IF durationExceeds(constraint, start_time, end_time)
             THEN Rejected("Duration too long", constraint.maxDuration,
                           durationDays(start_time, end_time))
             ELSE Valid

validateHistoricalDataRequest(interval_in_minutes, start_time, end_time, clock) ==
    IF unsupported(interval_in_minutes)
    THEN Rejected("Unsupported interval", Null, Num(interval_in_minutes))
    ELSE LET constraint == constraints[interval_in_minutes]
         IN  IF durationExceeds(constraint, start_time, end_time)
             THEN Rejected("Duration too long", constraint.maxDuration,
                           durationDays(start_time, end_time))
             ELSE IF historyExceeds(constraint, start_time, clock)
             THEN Rejected("Data too old", constraint.maxHistoryMonths,
                           ToFixed1(monthsAgo(start_time, clock)))
             ELSE Valid

-----------------------------------------------------------------------------
(* What the provider returns and what a handler returns *)

\* data of makeRequest: `present` is whether data.candles is there at all;
\* a candle is a record of the fields the handlers read (candle[1..4])
NoResult == [kind |-> "none"]

ConstraintViolation(v) ==
    [kind |-> "constraint_violation", error |-> v.error, max |-> v.max,
     requested |-> v.requested]

\* the catch block of a handler: "Error ...: ${error}"
Thrown == [kind |-> "error"]

NoData == [kind |-> "no_data"]

\* "Not enough data ... Need at least ${need} candles, have ${have}."
NotEnough(need, data) ==
    [kind |-> "insufficient_data", need |-> need,
     have |-> IF data.present THEN Len(data.candles) ELSE 0]

\* a "Not enough ..." return that names no counts
NotEnoughData == [kind |-> "insufficient_data"]

Closes(data) == [i \in 1..Len(data.candles) |-> data.candles[i].close]

-----------------------------------------------------------------------------
(* calculate_moving_averages *)

\* smaValues with each window starting one close late
smaValues_WindowShifted(closes, period) ==
    [j \in 1..(Len(closes) - period + 1) |->
        Div(Sum(Slice(closes, j, j + period)), Num(period))]

\* smaValues of one period
smaValues(closes, period) ==
    [j \in 1..(Len(closes) - period + 1) |->
        Div(Sum(Slice(closes, (j - 1), (j - 1) + period)), Num(period))]

multiplier(period) == Div(Num(2), Num(period + 1))

\* emaValues of one period: emaValues[0] = closes[period - 1], then the recurrence
RECURSIVE emaLoop(_, _, _, _)
emaLoop(closes, period, i, acc) ==
    IF ~(i < Len(closes) - period + 1) THEN acc
    ELSE emaLoop(closes, period, i + 1,
                 Append(acc, Add(Mul(At(closes, period - 1 + i), multiplier(period)),
                                 Mul(acc[Len(acc)], Sub(Num(1), multiplier(period))))))

emaValues(closes, period) == emaLoop(closes, period, 1, <<At(closes, period - 1)>>)

\* one element of `results`
movingAverage(closes, period) ==
    IF period > Len(closes)
    THEN [kind |-> "not_enough", period |-> period, need |-> period,
          have |-> Len(closes)]
    ELSE LET sma == smaValues(closes, period)
             ema == emaValues(closes, period)
         IN  [kind |-> "ok", period |-> period, smaValues |-> sma, emaValues |-> ema,
              latestSMA |-> sma[Len(sma)], latestEMA |-> ema[Len(ema)]]

calculate_moving_averages(a, data) ==
    IF ~data.present \/ Len(data.candles) = 0 THEN NoData
    ELSE [kind |-> "ok",
          results |-> [k \in 1..Len(a.periods) |->
                          movingAverage(Closes(data), a.periods[k])]]

-----------------------------------------------------------------------------
(* calculate_rsi *)

changesOf(closes) ==
    IF Len(closes) < 2 THEN <<>>
    ELSE [i \in 1..(Len(closes) - 1) |-> Sub(closes[i + 1], closes[i])]

gainsOf(changes) ==
    [i \in 1..Len(changes) |-> IF Gt(changes[i], Num(0)) THEN changes[i] ELSE Num(0)]

lossesOf(changes) ==
    [i \in 1..Len(changes) |-> IF Lt(changes[i], Num(0)) THEN Abs(changes[i]) ELSE Num(0)]

initialAverage(xs, period) == Div(Sum(Slice(xs, 0, period)), Num(period))

\* the value pushed for the current averages
rsiOf(avgGain, avgLoss) ==
    IF Eq(avgLoss, Num(0)) THEN Num(100)
    ELSE LET rs == Div(avgGain, avgLoss)
         IN  Sub(Num(100), Div(Num(100), Add(Num(1), rs)))

\* Wilder's smoothing
smooth(avg, x, period) == Div(Add(Mul(avg, Num(period - 1)), x), Num(period))

\* the loop over i = period .. changes.length - 1; each entry keeps, beside the
\* value pushed, the averages it was computed from and the position i
RECURSIVE rsiLoop(_, _, _, _, _, _, _)
rsiLoop(gains, losses, period, i, avgGain, avgLoss, acc) ==
    IF ~(i < Len(gains)) THEN acc
    ELSE rsiLoop(gains, losses, period, i + 1,
                 smooth(avgGain, At(gains, i), period),
                 smooth(avgLoss, At(losses, i), period),
                 Append(acc, [value |-> rsiOf(avgGain, avgLoss), avgGain |-> avgGain,
                              avgLoss |-> avgLoss, i |-> i]))

rsiTrace(closes, period) ==
    LET changes == changesOf(closes)
        gains   == gainsOf(changes)
        losses  == lossesOf(changes)
    IN  rsiLoop(gains, losses, period, period, initialAverage(gains, period),
                initialAverage(losses, period), <<>>)

calculate_rsi(a, data) ==
    IF ~data.present \/ Len(data.candles) < a.period + 1
    THEN NotEnough(a.period + 1, data)
    ELSE LET trace == rsiTrace(Closes(data), a.period)
         IN  IF trace = <<>>
             THEN Thrown     \* latestRSI is undefined: latestRSI.toFixed(2) throws
             ELSE [kind |-> "ok", trace |-> trace,
                   rsiValues |-> [i \in 1..Len(trace) |-> trace[i].value],
                   latestRSI |-> trace[Len(trace)].value]

-----------------------------------------------------------------------------
(* calculate_bollinger_bands *)

\* the precision Math.sqrt is modelled to: the root is rounded down to a
\* multiple of 1 / SqrtScale (exact for the squares of such multiples)
SqrtScale == 12

RECURSIVE isqrt(_, _, _)
isqrt(v, lo, hi) ==     \* the r in lo..hi with r * r <= v < (r + 1) * (r + 1)
    IF lo = hi THEN lo
    ELSE LET mid == (lo + hi + 1) \div 2
         IN  IF mid * mid <= v THEN isqrt(v, mid, hi) ELSE isqrt(v, lo, mid - 1)

Sqrt(x) ==
    IF IsNaN(x) \/ Lt(x, Num(0)) THEN NaN
    ELSE IF IsInf(x) THEN PosInf
    ELSE LET v == (x.n * SqrtScale * SqrtScale) \div x.d
         IN  Frac(isqrt(v, 0, v), SqrtScale)

\* Math.pow(x, 2)
Square(x) == Mul(x, x)

bollingerSma(recentCloses, period) == Div(Sum(recentCloses), Num(period))

bollingerVariance(recentCloses, sma, period) ==
    Div(Sum([i \in 1..Len(recentCloses) |-> Square(Sub(recentCloses[i], sma))]),
        Num(period))

upperBandOf(sma, std_dev, standardDeviation) == Add(sma, Mul(std_dev, standardDeviation))

lowerBandOf(sma, std_dev, standardDeviation) == Sub(sma, Mul(std_dev, standardDeviation))

calculate_bollinger_bands(a, data) ==
    IF ~data.present \/ Len(data.candles) < a.period
    THEN NotEnough(a.period, data)
    ELSE LET closes            == Closes(data)
             recentCloses      == Slice(closes, -a.period, Len(closes))
             sma               == bollingerSma(recentCloses, a.period)
             variance          == bollingerVariance(recentCloses, sma, a.period)
             standardDeviation == Sqrt(variance)
             upperBand         == upperBandOf(sma, a.std_dev, standardDeviation)
             lowerBand         == lowerBandOf(sma, a.std_dev, standardDeviation)
             currentPrice      == At(closes, Len(closes) - 1)
         IN  IF Len(closes) = 0
             THEN Thrown     \* currentPrice is undefined: currentPrice.toFixed(2) throws
             ELSE [kind |-> "ok", recentCloses |-> recentCloses,
                   sma |-> sma, variance |-> variance,
                   standardDeviation |-> standardDeviation,
                   upperBand |-> upperBand, lowerBand |-> lowerBand,
                   bandPosition |-> Mul(Div(Sub(currentPrice, lowerBand),
                                            Sub(upperBand, lowerBand)), Num(100)),
                   bandwidth |-> Mul(Div(Sub(upperBand, lowerBand), sma), Num(100))]

-----------------------------------------------------------------------------
(* calculate_stochastic and calculate_williams_r *)

\* Math.max(...xs) and Math.min(...xs); -Infinity and Infinity of no argument
RECURSIVE MaxOf(_)
MaxOf(xs) == IF xs = <<>> THEN NegInf
             ELSE Max2(MaxOf(SubSeq(xs, 1, Len(xs) - 1)), xs[Len(xs)])

RECURSIVE MinOf(_)
MinOf(xs) == IF xs = <<>> THEN PosInf
             ELSE Min2(MinOf(SubSeq(xs, 1, Len(xs) - 1)), xs[Len(xs)])

Highs(cs) == [i \in 1..Len(cs) |-> cs[i].high]

Lows(cs) == [i \in 1..Len(cs) |-> cs[i].low]

\* the window candles.slice(i - period + 1, i + 1)
highest_high(candles, i, period) == MaxOf(Highs(Slice(candles, i - period + 1, i + 1)))

lowest_low(candles, i, period) == MinOf(Lows(Slice(candles, i - period + 1, i + 1)))

k_value(candles, i, k_period) ==
    Mul(Div(Sub(candles[i + 1].close, lowest_low(candles, i, k_period)),
            Sub(highest_high(candles, i, k_period), lowest_low(candles, i, k_period))),
        Num(100))

\* kValues: one value for each i = k_period - 1 .. candles.length - 1
kValuesOf(candles, k_period) ==
    [j \in 1..(Len(candles) - k_period + 1) |-> k_value(candles, k_period - 1 + (j - 1), k_period)]

\* dValues: the loop over i = d_period - 1 .. kValues.length - 1
RECURSIVE dLoop(_, _, _, _)
dLoop(kValues, d_period, i, acc) ==
    IF ~(i < Len(kValues)) THEN acc
    ELSE dLoop(kValues, d_period, i + 1,
               Append(acc, Div(Sum(Slice(kValues, i - d_period + 1, i + 1)),
                               Num(d_period))))

dValuesOf(kValues, d_period) == dLoop(kValues, d_period, d_period - 1, <<>>)

calculate_stochastic(a, data) ==
    IF ~data.present \/ Len(data.candles) < a.k_period + a.d_period
    THEN NotEnough(a.k_period + a.d_period, data)
    ELSE IF a.k_period - 1 < 0
    THEN Thrown     \* candles[i] is undefined for i < 0: candles[i].close throws
    ELSE LET kValues == kValuesOf(data.candles, a.k_period)
             dValues == dValuesOf(kValues, a.d_period)
         IN  IF kValues = <<>> \/ dValues = <<>>
             THEN Thrown     \* currentK or currentD is undefined: toFixed throws
             ELSE [kind |-> "ok",
                   kValues |-> kValues, dValues |-> dValues,
                   currentK |-> kValues[Len(kValues)],
                   currentD |-> dValues[Len(dValues)]]

wr_value(candles, i, period) ==
    Mul(Div(Sub(highest_high(candles, i, period), candles[i + 1].close),
            Sub(highest_high(candles, i, period), lowest_low(candles, i, period))),
        Num(-100))

williamsROf(candles, period) ==
    [j \in 1..(Len(candles) - period + 1) |-> wr_value(candles, period - 1 + (j - 1), period)]

calculate_williams_r(a, data) ==
    IF ~data.present \/ Len(data.candles) < a.period
    THEN NotEnough(a.period, data)
    ELSE IF a.period - 1 < 0
    THEN Thrown     \* candles[i] is undefined for i < 0: candles[i].close throws
    ELSE LET williamsR == williamsROf(data.candles, a.period)
         IN  [kind |-> "ok", williamsR |-> williamsR,
              currentWR |-> williamsR[Len(williamsR)]]

-----------------------------------------------------------------------------
(* calculate_adx *)

\* for i = 1 .. candles.length - 1: current = candles[i], previous = candles[i - 1]
trueRange(current, previous) ==
    LET tr1 == Sub(current.high, current.low)
        tr2 == Abs(Sub(current.high, previous.close))
        tr3 == Abs(Sub(current.low, previous.close))
    IN  Max2(Max2(tr1, tr2), tr3)

\* plusDM without the comparison against the downward movement
plusDM_IgnoresDown(current, previous) ==
    Max2(Sub(current.high, previous.high), Num(0))

plusDM(current, previous) ==
    IF Gt(Sub(current.high, previous.high), Sub(previous.low, current.low))
    THEN Max2(Sub(current.high, previous.high), Num(0)) ELSE Num(0)

minusDM(current, previous) ==
    IF Gt(Sub(previous.low, current.low), Sub(current.high, previous.high))
    THEN Max2(Sub(previous.low, current.low), Num(0)) ELSE Num(0)

trueRangesOf(candles) ==
    IF Len(candles) < 2 THEN <<>>
    ELSE [i \in 1..(Len(candles) - 1) |-> trueRange(candles[i + 1], candles[i])]

plusDMsOf(candles) ==
    IF Len(candles) < 2 THEN <<>>
    ELSE [i \in 1..(Len(candles) - 1) |-> plusDM(candles[i + 1], candles[i])]

minusDMsOf(candles) ==
    IF Len(candles) < 2 THEN <<>>
    ELSE [i \in 1..(Len(candles) - 1) |-> minusDM(candles[i + 1], candles[i])]

\* Wilder's smoothing of a sum: the initial sum, then sum - sum / period + xs[i]
\* for i = period .. xs.length - 1
RECURSIVE wilderLoop(_, _, _, _)
wilderLoop(xs, period, i, acc) ==
    IF ~(i < Len(xs)) THEN acc
    ELSE LET sum == acc[Len(acc)]
         IN  wilderLoop(xs, period, i + 1,
                        Append(acc, Add(Sub(sum, Div(sum, Num(period))), At(xs, i))))

smoothedOf(xs, period) == wilderLoop(xs, period, period, <<Sum(Slice(xs, 0, period))>>)

diOf(smoothedDM, smoothedTR) ==
    [i \in 1..Len(smoothedTR) |-> Mul(Div(smoothedDM[i], smoothedTR[i]), Num(100))]

dxValue(pDI, mDI) ==
    LET diSum  == Add(pDI, mDI)
        diDiff == Abs(Sub(pDI, mDI))
    IN  IF ~Eq(diSum, Num(0)) THEN Mul(Div(diDiff, diSum), Num(100)) ELSE Num(0)

dxOf(plusDI, minusDI) == [i \in 1..Len(plusDI) |-> dxValue(plusDI[i], minusDI[i])]

RECURSIVE adxLoop(_, _, _, _)
adxLoop(dx, period, i, acc) ==
    IF ~(i < Len(dx)) THEN acc
    ELSE adxLoop(dx, period, i + 1,
                 Append(acc, smooth(acc[Len(acc)], At(dx, i), period)))

\* adxOf seeded with the first DX value
adxOf_SeedFirst(dx, period) ==
    IF Len(dx) >= period
    THEN adxLoop(dx, period, period, <<At(dx, 0)>>)
    ELSE <<>>

adxOf(dx, period) ==
    IF Len(dx) >= period
    THEN adxLoop(dx, period, period, <<Div(Sum(Slice(dx, 0, period)), Num(period))>>)
    ELSE <<>>

calculate_adx(a, data) ==
    IF ~data.present \/ Len(data.candles) < a.period * 2
    THEN NotEnough(a.period * 2, data)
    ELSE LET candles    == data.candles
             smoothedTR == smoothedOf(trueRangesOf(candles), a.period)
             plusDI     == diOf(smoothedOf(plusDMsOf(candles), a.period), smoothedTR)
             minusDI    == diOf(smoothedOf(minusDMsOf(candles), a.period), smoothedTR)
             dx         == dxOf(plusDI, minusDI)
             adx        == adxOf(dx, a.period)
         IN  IF adx = <<>> \/ Len(candles) = 0
             THEN Thrown     \* currentADX.toFixed or candles[-1].close throws
             ELSE [kind |-> "ok", plusDMs |-> plusDMsOf(candles),
                   minusDMs |-> minusDMsOf(candles), smoothedTR |-> smoothedTR,
                   plusDI |-> plusDI, minusDI |-> minusDI, dx |-> dx, adx |-> adx,
                   currentADX |-> adx[Len(adx)],
                   currentPlusDI |-> plusDI[Len(plusDI)],
                   currentMinusDI |-> minusDI[Len(minusDI)]]

-----------------------------------------------------------------------------
(* get_historical_data *)

get_historical_data(a, data) ==
    IF ~data.present \/ Len(data.candles) = 0
    THEN Thrown     \* data.candles.slice, or data.candles[0][0], throws
    ELSE [kind |-> "ok", totalCandles |-> Len(data.candles)]

-----------------------------------------------------------------------------
(* calculate_macd *)

\* calculateEMA: ema[0] = prices[0], then the recurrence over i = 1 .. length - 1
RECURSIVE calculateEMALoop(_, _, _, _)
calculateEMALoop(prices, period, i, ema) ==
    IF ~(i < Len(prices)) THEN ema
    ELSE calculateEMALoop(prices, period, i + 1,
             Append(ema, Add(Mul(At(prices, i), multiplier(period)),
                             Mul(ema[Len(ema)], Sub(Num(1), multiplier(period))))))

calculateEMA(prices, period) == calculateEMALoop(prices, period, 1, <<At(prices, 0)>>)

macdLineOf(fastEMA, slowEMA, n) == [i \in 1..n |-> Sub(At(fastEMA, i - 1), At(slowEMA, i - 1))]

histogramOf(macdLine, signalLine) ==
    [i \in 1..Len(macdLine) |-> Sub(macdLine[i], At(signalLine, i - 1))]

macdInterpretation(currentMACD, currentSignal, currentHistogram, prevHistogram) ==
    IF Gt(currentMACD, currentSignal)
    THEN IF Lt(prevHistogram, Num(0)) /\ Gt(currentHistogram, Num(0))
         THEN "BULLISH CROSSOVER" ELSE "BULLISH MOMENTUM"
    ELSE IF Gt(prevHistogram, Num(0)) /\ Lt(currentHistogram, Num(0))
         THEN "BEARISH CROSSOVER" ELSE "BEARISH MOMENTUM"

calculate_macd(a, data) ==
    IF ~data.present \/ Len(data.candles) < a.slow_period + a.signal_period
    THEN NotEnough(a.slow_period + a.signal_period, data)
    ELSE LET closes     == Closes(data)
             fastEMA    == calculateEMA(closes, a.fast_period)
             slowEMA    == calculateEMA(closes, a.slow_period)
             macdLine   == macdLineOf(fastEMA, slowEMA, Len(closes))
             signalLine == calculateEMA(macdLine, a.signal_period)
             histogram  == histogramOf(macdLine, signalLine)
             currentMACD      == At(macdLine, Len(macdLine) - 1)
             currentSignal    == At(signalLine, Len(signalLine) - 1)
             currentHistogram == At(histogram, Len(histogram) - 1)
             prevHistogram    == At(histogram, Len(histogram) - 2)
         IN  IF Len(closes) = 0
             THEN Thrown     \* currentPrice is undefined: currentPrice.toFixed(2) throws
             ELSE [kind |-> "ok", fastEMA |-> fastEMA, slowEMA |-> slowEMA,
                   macdLine |-> macdLine, signalLine |-> signalLine,
                   histogram |-> histogram, currentMACD |-> currentMACD,
                   currentSignal |-> currentSignal,
                   currentHistogram |-> currentHistogram,
                   interpretation |-> macdInterpretation(currentMACD, currentSignal,
                                                         currentHistogram, prevHistogram)]

-----------------------------------------------------------------------------
(* calculate_volatility_metrics *)

returnsOf(candles) ==
    IF Len(candles) < 2 THEN <<>>
    ELSE [i \in 1..(Len(candles) - 1) |->
             Div(Sub(candles[i + 1].close, candles[i].close), candles[i].close)]

returnVariance(returns, meanReturn) ==
    Div(Sum([i \in 1..Len(returns) |-> Square(Sub(returns[i], meanReturn))]),
        Num(Len(returns) - 1))

\* the trading days of a year
TradingDays == 252

riskLevelOf(annualizedVolatility) ==
    IF Lt(annualizedVolatility, Num(15)) THEN "LOW VOLATILITY"
    ELSE IF Lt(annualizedVolatility, Num(25)) THEN "MODERATE VOLATILITY"
    ELSE IF Lt(annualizedVolatility, Num(40)) THEN "HIGH VOLATILITY"
    ELSE "VERY HIGH VOLATILITY"

riskFreeRate == Frac(6, 100)

calculate_volatility_metrics(a, data) ==
    IF ~data.present \/ Len(data.candles) < 2
    THEN NotEnoughData
    ELSE LET candles         == data.candles
             returns         == returnsOf(candles)
             meanReturn      == Div(Sum(returns), Num(Len(returns)))
             variance        == returnVariance(returns, meanReturn)
             dailyVolatility == Sqrt(variance)
             annualizedVolatility ==
                 Mul(Mul(dailyVolatility, Sqrt(Num(TradingDays))), Num(100))
             atr             == Div(Sum(trueRangesOf(candles)), Num(Len(candles) - 1))
             highLowRanges   ==
                 [i \in 1..Len(candles) |->
                     Div(Sub(candles[i].high, candles[i].low), candles[i].close)]
             currentPrice    == candles[Len(candles)].close
             excessReturn    == Sub(Mul(meanReturn, Num(TradingDays)), riskFreeRate)
         IN  [kind |-> "ok", returns |-> returns, meanReturn |-> meanReturn,
              variance |-> variance, dailyVolatility |-> dailyVolatility,
              annualizedVolatility |-> annualizedVolatility,
              atr |-> atr,
              atrPercentage |-> Mul(Div(atr, currentPrice), Num(100)),
              avgHighLowRange |->
                  Mul(Div(Sum(highLowRanges), Num(Len(candles))), Num(100)),
              riskLevel |-> riskLevelOf(annualizedVolatility),
              sharpeRatio |->
                  Div(excessReturn, Mul(dailyVolatility, Sqrt(Num(TradingDays))))]

-----------------------------------------------------------------------------
(* calculate_support_resistance *)

\* Array.prototype.sort with a comparator that subtracts the keys: ascending in
\* `key`, elements of equal keys in their original order
RECURSIVE sortByKey(_)
sortByKey(s) ==
    IF s = <<>> THEN <<>>
    ELSE LET rest == sortByKey(SubSeq(s, 1, Len(s) - 1))
             x    == s[Len(s)]
             p    == Cardinality({j \in 1..Len(rest) : ~Lt(x.key, rest[j].key)})
         IN  SubSeq(rest, 1, p) \o <<x>> \o SubSeq(rest, p + 1, Len(rest))

\* the candle at position i of the code
Nth(candles, i) == candles[i + 1]

isPivotHigh(candles, i) ==
    /\ Gt(Nth(candles, i).high, Nth(candles, i - 1).high)
    /\ Gt(Nth(candles, i).high, Nth(candles, i - 2).high)
    /\ Gt(Nth(candles, i).high, Nth(candles, i + 1).high)
    /\ Gt(Nth(candles, i).high, Nth(candles, i + 2).high)

isPivotLow(candles, i) ==
    /\ Lt(Nth(candles, i).low, Nth(candles, i - 1).low)
    /\ Lt(Nth(candles, i).low, Nth(candles, i - 2).low)
    /\ Lt(Nth(candles, i).low, Nth(candles, i + 1).low)
    /\ Lt(Nth(candles, i).low, Nth(candles, i + 2).low)

\* the positions i = 2 .. candles.length - 3 the loop visits, in order
pivotPositions(candles) ==
    IF Len(candles) < 5 THEN <<>> ELSE [k \in 1..(Len(candles) - 4) |-> k + 1]

pivotHighsOf(candles) ==
    LET Test(i) == isPivotHigh(candles, i)
        at      == SelectSeq(pivotPositions(candles), Test)
    IN  [j \in 1..Len(at) |-> [price |-> Nth(candles, at[j]).high,
                               timestamp |-> Nth(candles, at[j]).timestamp]]

pivotLowsOf(candles) ==
    LET Test(i) == isPivotLow(candles, i)
        at      == SelectSeq(pivotPositions(candles), Test)
    IN  [j \in 1..Len(at) |-> [price |-> Nth(candles, at[j]).low,
                               timestamp |-> Nth(candles, at[j]).timestamp]]

avgPrice(group) == Div(Sum([i \in 1..Len(group) |-> group[i].price]), Num(Len(group)))

tolerance == Frac(1, 100)

\* the test against the first pivot of the group instead of its average
withinTolerance_FirstMember(pivot, group) ==
    Le(Div(Abs(Sub(pivot.price, group[1].price)), group[1].price), tolerance)

withinTolerance(pivot, group) ==
    Le(Div(Abs(Sub(pivot.price, avgPrice(group))), avgPrice(group)), tolerance)

\* the groups after pivots[k ..] were placed: each pivot joins the first group
\* whose average it is within the tolerance of, or starts a new group
RECURSIVE groupLoop(_, _, _)
groupLoop(pivots, k, groups) ==
    IF k > Len(pivots) THEN groups
    ELSE LET fits == {g \in 1..Len(groups) : withinTolerance(pivots[k], groups[g])}
         IN  IF fits = {}
             THEN groupLoop(pivots, k + 1, Append(groups, <<pivots[k]>>))
             ELSE LET g == CHOOSE x \in fits : \A y \in fits : x <= y
                  IN  groupLoop(pivots, k + 1,
                                [groups EXCEPT ![g] = Append(groups[g], pivots[k])])

groupsOf(pivots) == groupLoop(pivots, 1, <<>>)

levelOf(group) ==
    [price     |-> avgPrice(group),
     touches   |-> Len(group),
     lastTouch |-> MaxOf([i \in 1..Len(group) |-> Num(group[i].timestamp)])]

\* groupLevels keeping only the groups of more than min_touches pivots
groupLevels_StrictlyMore(pivots, min_touches) ==
    LET Strong(group) == Len(group) > min_touches
        kept          == SelectSeq(groupsOf(pivots), Strong)
    IN  [i \in 1..Len(kept) |-> levelOf(kept[i])]

groupLevels(pivots, min_touches) ==
    LET Strong(group) == Len(group) >= min_touches
        kept          == SelectSeq(groupsOf(pivots), Strong)
    IN  [i \in 1..Len(kept) |-> levelOf(kept[i])]

\* levels.sort((a, b) => b.touches - a.touches)
sortByTouches(levels) ==
    LET keyed  == [i \in 1..Len(levels) |-> [key |-> Num(-levels[i].touches),
                                             item |-> levels[i]]]
        sorted == sortByKey(keyed)
    IN  [i \in 1..Len(sorted) |-> sorted[i].item]

\* the value of find() that found nothing
NoLevel == [price |-> Null]

\* nearestResistanceOf taking the lowest of the levels above the price
nearestResistanceOf_Lowest(resistanceLevels, currentPrice) ==
    LET Above(level) == Gt(level.price, currentPrice)
        found        == SelectSeq(resistanceLevels, Above)
    IN  IF found = <<>> THEN NoLevel
        ELSE CHOOSE level \in {found[i] : i \in 1..Len(found)} :
                \A i \in 1..Len(found) : Le(level.price, found[i].price)

nearestResistanceOf(resistanceLevels, currentPrice) ==
    LET Above(level) == Gt(level.price, currentPrice)
        found        == SelectSeq(resistanceLevels, Above)
    IN  IF found = <<>> THEN NoLevel ELSE found[1]

nearestSupportOf(supportLevels, currentPrice) ==
    LET Below(level) == Lt(level.price, currentPrice)
        found        == SelectSeq(supportLevels, Below)
    IN  IF found = <<>> THEN NoLevel ELSE found[1]

\* the fewest candles the level tools accept
MinLevelCandles == 10

calculate_support_resistance(a, data) ==
    IF ~data.present \/ Len(data.candles) < MinLevelCandles
    THEN NotEnoughData
    ELSE LET candles          == data.candles
             pivotHighs       == pivotHighsOf(candles)
             pivotLows        == pivotLowsOf(candles)
             resistanceLevels == sortByTouches(groupLevels(pivotHighs, a.min_touches))
             supportLevels    == sortByTouches(groupLevels(pivotLows, a.min_touches))
             currentPrice     == candles[Len(candles)].close
         IN  [kind |-> "ok", pivotHighs |-> pivotHighs, pivotLows |-> pivotLows,
              resistanceLevels |-> resistanceLevels, supportLevels |-> supportLevels,
              currentPrice |-> currentPrice,
              nearestResistance |-> nearestResistanceOf(resistanceLevels, currentPrice),
              nearestSupport |-> nearestSupportOf(supportLevels, currentPrice)]

-----------------------------------------------------------------------------
(* calculate_fibonacci_levels *)

retracementRatios ==
    <<Num(0), Frac(236, 1000), Frac(382, 1000), Frac(5, 10), Frac(618, 1000),
      Frac(786, 1000), Num(1)>>

extensionRatios ==
    <<Frac(1272, 1000), Frac(1414, 1000), Frac(1618, 1000), Num(2), Frac(2618, 1000)>>

avgClose(candles) == Div(Sum([i \in 1..Len(candles) |-> candles[i].close]), Num(Len(candles)))

\* directionOf reading equal means as a rising trend
directionOf_TiesUp(trend_direction, candles) ==
    IF trend_direction = "AUTO"
    THEN LET quarter == Len(candles) \div 4
         IN  IF Ge(avgClose(Slice(candles, -quarter, Len(candles))),
                   avgClose(Slice(candles, 0, quarter)))
             THEN "UP" ELSE "DOWN"
    ELSE trend_direction

directionOf(trend_direction, candles) ==
    IF trend_direction = "AUTO"
    THEN LET quarter       == Len(candles) \div 4     \* Math.floor(candles.length / 4)
             firstQuarter  == Slice(candles, 0, quarter)
             lastQuarter   == Slice(candles, -quarter, Len(candles))
             avgEarlyPrice == avgClose(firstQuarter)
             avgLatePrice  == avgClose(lastQuarter)
         IN  IF Gt(avgLatePrice, avgEarlyPrice) THEN "UP" ELSE "DOWN"
    ELSE trend_direction

\* retracementPrice measuring every trend from the low
retracementPrice_FromLow(direction, high, low, ratio) ==
    Add(low, Mul(Sub(high, low), ratio))

retracementPrice(direction, high, low, ratio) ==
    IF direction = "UP" THEN Sub(high, Mul(Sub(high, low), ratio))
    ELSE Add(low, Mul(Sub(high, low), ratio))

extensionPrice(direction, high, low, ratio) ==
    IF direction = "UP" THEN Add(high, Mul(Sub(high, low), Sub(ratio, Num(1))))
    ELSE Sub(low, Mul(Sub(high, low), Sub(ratio, Num(1))))

\* one element of retracementLevels / extensionLevels; the label is the ratio
\* as a percentage
fibLevel(ratio, level, currentPrice) ==
    [ratio    |-> ratio,
     price    |-> level,
     distance |-> Mul(Div(Abs(Sub(currentPrice, level)), currentPrice), Num(100)),
     label    |-> Mul(ratio, Num(100))]

\* allLevels.sort((a, b) => a.distance - b.distance)
sortByDistance(levels) ==
    LET keyed  == [i \in 1..Len(levels) |-> [key |-> levels[i].distance,
                                             item |-> levels[i]]]
        sorted == sortByKey(keyed)
    IN  [i \in 1..Len(sorted) |-> sorted[i].item]

\* the 1% within which the price counts as at a level
fibTolerance == Num(1)

significantLevelOf(allLevels) ==
    LET Near(level) == Le(level.distance, fibTolerance)
        found       == SelectSeq(allLevels, Near)
    IN  IF found = <<>> THEN NoLevel ELSE found[1]

calculate_fibonacci_levels(a, data) ==
    IF ~data.present \/ Len(data.candles) < MinLevelCandles
    THEN NotEnoughData
    ELSE LET candles      == data.candles
             maxHigh      == MaxOf(Highs(candles))
             minLow       == MinOf(Lows(candles))
             direction    == directionOf(a.trend_direction, candles)
             high         == maxHigh
             low          == minLow
             currentPrice == candles[Len(candles)].close
             retracementLevels ==
                 [i \in 1..Len(retracementRatios) |->
                     fibLevel(retracementRatios[i],
                              retracementPrice(direction, high, low, retracementRatios[i]),
                              currentPrice)]
             extensionLevels ==
                 [i \in 1..Len(extensionRatios) |->
                     fibLevel(extensionRatios[i],
                              extensionPrice(direction, high, low, extensionRatios[i]),
                              currentPrice)]
             allLevels    == sortByDistance(retracementLevels \o extensionLevels)
         IN  [kind |-> "ok", direction |-> direction, high |-> high, low |-> low,
              range |-> Sub(high, low), currentPrice |-> currentPrice,
              retracementLevels |-> retracementLevels,
              extensionLevels |-> extensionLevels,
              allLevels |-> allLevels, nearestLevel |-> allLevels[1],
              significantLevel |-> significantLevelOf(allLevels)]

-----------------------------------------------------------------------------
(* analyze_candlestick_patterns *)

isBullish(candle) == Gt(candle.close, candle.open)

isBearish(candle) == Lt(candle.close, candle.open)

bodySize(candle) == Abs(Sub(candle.close, candle.open))

upperShadow(candle) == Sub(candle.high, Max2(candle.open, candle.close))

lowerShadow(candle) == Sub(Min2(candle.open, candle.close), candle.low)

totalRange(candle) == Sub(candle.high, candle.low)

isLongBody(candle) == Gt(bodySize(candle), Mul(totalRange(candle), Frac(6, 10)))

pattern(name, type, position) == [name |-> name, type |-> type, position |-> position]

\* hammerOrHangingMan taking a lower shadow of twice the body for a long one
hammerOrHangingMan_FromTwice(prev, current, i) ==
    IF /\ Ge(lowerShadow(current), Mul(bodySize(current), Num(2)))
       /\ Lt(upperShadow(current), Mul(bodySize(current), Frac(5, 10)))
    THEN IF isBearish(prev) /\ isBullish(current)
         THEN <<pattern("HAMMER", "BULLISH REVERSAL", i)>>
         ELSE IF isBullish(prev) /\ (isBullish(current) \/ isBearish(current))
         THEN <<pattern("HANGING MAN", "BEARISH REVERSAL", i)>>
         ELSE <<>>
    ELSE <<>>

hammerOrHangingMan(prev, current, i) ==
    IF /\ Gt(lowerShadow(current), Mul(bodySize(current), Num(2)))
       /\ Lt(upperShadow(current), Mul(bodySize(current), Frac(5, 10)))
    THEN IF isBearish(prev) /\ isBullish(current)
         THEN <<pattern("HAMMER", "BULLISH REVERSAL", i)>>
         ELSE IF isBullish(prev) /\ (isBullish(current) \/ isBearish(current))
         THEN <<pattern("HANGING MAN", "BEARISH REVERSAL", i)>>
         ELSE <<>>
    ELSE <<>>

doji(current, i) ==
    IF Lt(bodySize(current), Mul(totalRange(current), Frac(1, 10)))
    THEN <<pattern("DOJI", "REVERSAL/INDECISION", i)>>
    ELSE <<>>

\* shootingStar taking a long shadow on either side
shootingStar_EitherShadow(prev, current, i) ==
    IF /\ \/ Gt(upperShadow(current), Mul(bodySize(current), Num(2)))
          \/ Gt(lowerShadow(current), Mul(bodySize(current), Num(2)))
       /\ isBullish(prev)
    THEN <<pattern("SHOOTING STAR", "BEARISH REVERSAL", i)>>
    ELSE <<>>

shootingStar(prev, current, i) ==
    IF /\ Gt(upperShadow(current), Mul(bodySize(current), Num(2)))
       /\ Lt(lowerShadow(current), Mul(bodySize(current), Frac(5, 10)))
       /\ isBullish(prev)
    THEN <<pattern("SHOOTING STAR", "BEARISH REVERSAL", i)>>
    ELSE <<>>

bullishEngulfing(current, next, i) ==
    IF /\ isBearish(current) /\ isBullish(next)
       /\ Lt(next.open, current.close) /\ Gt(next.close, current.open)
       /\ Gt(bodySize(next), bodySize(current))
    THEN <<pattern("BULLISH ENGULFING", "BULLISH REVERSAL", i + 1)>>
    ELSE <<>>

bearishEngulfing(current, next, i) ==
    IF /\ isBullish(current) /\ isBearish(next)
       /\ Gt(next.open, current.close) /\ Lt(next.close, current.open)
       /\ Gt(bodySize(next), bodySize(current))
    THEN <<pattern("BEARISH ENGULFING", "BEARISH REVERSAL", i + 1)>>
    ELSE <<>>

longBody(current, i) ==
    IF isLongBody(current)
    THEN IF isBullish(current)
         THEN <<pattern("LONG BULLISH CANDLE", "BULLISH CONTINUATION", i)>>
         ELSE <<pattern("LONG BEARISH CANDLE", "BEARISH CONTINUATION", i)>>
    ELSE <<>>

\* what one pass of the loop pushes, in the order it pushes
patternsAt(candles, i) ==
    LET prev    == Nth(candles, i - 1)
        current == Nth(candles, i)
        next    == Nth(candles, i + 1)
    IN  hammerOrHangingMan(prev, current, i) \o doji(current, i)
        \o shootingStar(prev, current, i)
        \o bullishEngulfing(current, next, i) \o bearishEngulfing(current, next, i)
        \o longBody(current, i)

\* the loop over i = 1 .. candles.length - 2
RECURSIVE patternLoop(_, _, _)
patternLoop(candles, i, patterns) ==
    IF ~(i < Len(candles) - 1) THEN patterns
    ELSE patternLoop(candles, i + 1, patterns \o patternsAt(candles, i))

patternsOf(candles) == patternLoop(candles, 1, <<>>)

analyze_candlestick_patterns(a, data) ==
    IF ~data.present \/ Len(data.candles) < a.lookback_candles + 2
    THEN NotEnoughData
    ELSE LET candles  == Slice(data.candles, -a.lookback_candles - 2, Len(data.candles))
             patterns == patternsOf(candles)
         IN  IF candles = <<>>
             THEN Thrown     \* candles[candles.length - 1] is undefined: .close throws
             ELSE [kind |-> "ok", candles |-> candles, patterns |-> patterns,
                   patternCount |-> Len(patterns),
                   recentPatterns |-> Slice(patterns, -3, Len(patterns)),
                   currentPrice |-> candles[Len(candles)].close]

-----------------------------------------------------------------------------
(* The instruments kept in memory: loadInstruments and the tools reading it *)

\* A string is a sequence of letters; a letter is a character, or a word that
\* the code never takes apart. '' is <<>>.
Undefined == <<"undefined">>   \* what reading a property that is not there gives

\* x || ''
OrEmpty(x) == IF x = Undefined THEN <<>> ELSE x

lowerLetter(c) == CASE c = "A" -> "a" [] c = "B" -> "b" [] OTHER -> c

upperLetter(c) == CASE c = "a" -> "A" [] c = "b" -> "B" [] OTHER -> c

toLowerCase(s) == [i \in 1..Len(s) |-> lowerLetter(s[i])]

toUpperCase(s) == [i \in 1..Len(s) |-> upperLetter(s[i])]

includes(s, q) == \E k \in 0..(Len(s) - Len(q)) : SubSeq(s, k + 1, k + Len(q)) = q

WhiteSpace == {" ", "\n"}

RECURSIVE trim(_)
trim(s) ==
    IF s = <<>> THEN s
    ELSE IF s[1] \in WhiteSpace THEN trim(Tail(s))
    ELSE IF s[Len(s)] \in WhiteSpace THEN trim(SubSeq(s, 1, Len(s) - 1))
    ELSE s

RECURSIVE split(_, _)
split(s, separator) ==
    IF \A i \in 1..Len(s) : s[i] # separator THEN <<s>>
    ELSE LET k == CHOOSE i \in 1..Len(s) :
                     s[i] = separator /\ \A j \in 1..(i - 1) : s[j] # separator
         IN  <<SubSeq(s, 1, k - 1)>> \o split(SubSeq(s, k + 1, Len(s)), separator)

\* line.split(',').map(v => v.trim())
cells(line) == LET raw == split(line, ",") IN [i \in 1..Len(raw) |-> trim(raw[i])]

\* the instrument of one line: instrument[header] = values[index] || '' for
\* every header in turn, so the last of equal headers counts
instrumentOf(headers, line) ==
    LET values == cells(line)
    IN  [header \in {headers[i] : i \in 1..Len(headers)} |->
            LET index == CHOOSE i \in 1..Len(headers) :
                            headers[i] = header /\ \A j \in (i + 1)..Len(headers) : headers[j] # header
            IN  IF index <= Len(values) THEN values[index] ELSE <<>>]

\* the parsing of loadInstruments: what it assigns to instrumentsData
parseCsv(csvData) ==
    LET lines   == split(trim(csvData), "\n")
        headers == cells(lines[1])
    IN  [k \in 1..(Len(lines) - 1) |-> instrumentOf(headers, lines[k + 1])]

\* instrument.name and the like
Field(instrument, name) ==
    IF <<name>> \in DOMAIN instrument THEN instrument[<<name>>] ELSE Undefined

\* the order localeCompare gives the letters of the symbols
Collation == <<"a", "A", "b", "B">>

letterRank(c) ==
    IF \E i \in 1..Len(Collation) : Collation[i] = c
    THEN CHOOSE i \in 1..Len(Collation) : Collation[i] = c
    ELSE 0

RECURSIVE localeCompare(_, _)
localeCompare(x, y) ==
    IF x = <<>> /\ y = <<>> THEN 0
    ELSE IF x = <<>> THEN -1
    ELSE IF y = <<>> THEN 1
    ELSE IF letterRank(x[1]) < letterRank(y[1]) THEN -1
    ELSE IF letterRank(x[1]) > letterRank(y[1]) THEN 1
    ELSE localeCompare(Tail(x), Tail(y))

\* the comparator of filtered.sort
byRelevance(a, b, queryLower) ==
    LET exact(instrument, name) ==
            toLowerCase(OrEmpty(Field(instrument, name))) = queryLower
        aSymbolExact      == exact(a, "trading_symbol")
        bSymbolExact      == exact(b, "trading_symbol")
        aGrowwSymbolExact == exact(a, "groww_symbol")
        bGrowwSymbolExact == exact(b, "groww_symbol")
        aNameExact        == exact(a, "name")
        bNameExact        == exact(b, "name")
    IN  IF aSymbolExact /\ ~bSymbolExact THEN -1
        ELSE IF ~aSymbolExact /\ bSymbolExact THEN 1
        ELSE IF aGrowwSymbolExact /\ ~bGrowwSymbolExact THEN -1
        ELSE IF ~aGrowwSymbolExact /\ bGrowwSymbolExact THEN 1
        ELSE IF aNameExact /\ ~bNameExact THEN -1
        ELSE IF ~aNameExact /\ bNameExact THEN 1
        ELSE localeCompare(OrEmpty(Field(a, "trading_symbol")),
                           OrEmpty(Field(b, "trading_symbol")))

\* Array.prototype.sort is stable: x goes before the first element it precedes
insertByRelevance(sorted, x, queryLower) ==
    LET later == {p \in 1..Len(sorted) : byRelevance(x, sorted[p], queryLower) < 0}
    IN  IF later = {} THEN Append(sorted, x)
        ELSE LET p == CHOOSE q \in later : \A r \in later : q <= r
             IN  SubSeq(sorted, 1, p - 1) \o <<x>> \o SubSeq(sorted, p, Len(sorted))

RECURSIVE sortByRelevance(_, _)
sortByRelevance(xs, queryLower) ==
    IF xs = <<>> THEN xs
    ELSE insertByRelevance(sortByRelevance(SubSeq(xs, 1, Len(xs) - 1), queryLower),
                           xs[Len(xs)], queryLower)

All == <<"ALL">>

NotLoaded == [kind |-> "not_loaded"]

NotFound == [kind |-> "not_found"]

\* the handler of search_instruments, given instrumentsLoaded and instrumentsData
search_instruments(a, loaded, instruments) ==
    IF ~loaded THEN NotLoaded
    ELSE LET queryLower == toLowerCase(a.query)
             matches(instrument) ==
                 LET hasQuery(name) ==
                         includes(toLowerCase(OrEmpty(Field(instrument, name))), queryLower)
                     textMatch     == hasQuery("name") \/ hasQuery("trading_symbol")
                                         \/ hasQuery("groww_symbol")
                     exchangeMatch == a.exchange = All
                                         \/ Field(instrument, "exchange") = a.exchange
                     segmentMatch  == a.segment = All
                                         \/ Field(instrument, "segment") = a.segment
                     typeMatch     == a.instrument_type = All
                                         \/ Field(instrument, "instrument_type") = a.instrument_type
                 IN  textMatch /\ exchangeMatch /\ segmentMatch /\ typeMatch
             filtered == sortByRelevance(SelectSeq(instruments, matches), queryLower)
             results  == Slice(filtered, 0, a.limit)
         IN  IF results = <<>> THEN NotFound
             ELSE [kind |-> "ok", results |-> results, totalFound |-> Len(filtered)]

\* instruments.find(test), or Undefined
find(instruments, test(_)) ==
    LET found == SelectSeq(instruments, test)
    IN  IF found = <<>> THEN Undefined ELSE found[1]

\* the handler of get_instrument_details; a.exchange is Undefined when left out
get_instrument_details(a, loaded, instruments) ==
    IF ~loaded THEN NotLoaded
    ELSE LET symbolUpper == toUpperCase(a.trading_symbol)
             onExchange(inst) ==
                 IF a.exchange # Undefined THEN Field(inst, "exchange") = a.exchange ELSE TRUE
             same(inst)  == Field(inst, "trading_symbol") = symbolUpper /\ onExchange(inst)
             alike(inst) == /\ Field(inst, "trading_symbol") # Undefined
                            /\ includes(Field(inst, "trading_symbol"), symbolUpper)
                            /\ onExchange(inst)
             instrument  == IF find(instruments, same) # Undefined
                            THEN find(instruments, same)
                            ELSE find(instruments, alike)
         IN  IF instrument = Undefined THEN NotFound
             ELSE [kind |-> "ok", results |-> <<instrument>>, totalFound |-> 1]

\* download_instruments_csv after its await of loadInstruments
download_instruments_csv(loaded, instruments) ==
    IF ~loaded THEN [kind |-> "failed"]
    ELSE [kind |-> "ok", total |-> Len(instruments), sample |-> Slice(instruments, 0, 5)]

\* the runs of loadInstruments: the one started when the server is built and
\* those of the calls of download_instruments_csv
DownloadCalls == {"first", "second"}

LoadIds == {"startup"} \cup DownloadCalls

\* pc: "idle", "fetching" (await fetch), "reading" (await response.text()),
\* "settled" (loadInstruments is over), "done" (the handler has returned);
\* response is the text fetched, succeeded whether the run reached the end of
\* its try block
IdleLoad == [pc |-> "idle", response |-> <<>>, succeeded |-> FALSE, result |-> NoResult]

NoLookup == [tool |-> "none", args |-> <<>>, returned |-> NoResult]

-----------------------------------------------------------------------------
(* A tool call: the handler up to its await of makeRequest, and after it *)

CandleTools ==
    {"get_historical_data", "calculate_moving_averages", "calculate_rsi",
     "calculate_bollinger_bands", "calculate_support_resistance",
     "calculate_volatility_metrics", "calculate_macd", "calculate_stochastic",
     "calculate_williams_r", "calculate_adx", "calculate_fibonacci_levels",
     "analyze_candlestick_patterns"}

NoValidation == [valid |-> FALSE, error |-> "not run", max |-> Null, requested |-> Null]

\* nothing received: no request issued yet, or makeRequest threw
NoPayload == [received |-> FALSE, present |-> FALSE, candles |-> <<>>]

\* the parameters of a call; each tool reads its own (the values given here are
\* the defaults of the tools' schemas; period is 20 in calculate_bollinger_bands)
BaseArgs(interval_in_minutes, start_time, end_time) ==
    [interval_in_minutes |-> interval_in_minutes, start_time |-> start_time,
     end_time |-> end_time, period |-> 14, periods |-> <<5, 10, 20, 50>>,
     k_period |-> 14, d_period |-> 3, std_dev |-> Num(2), min_touches |-> 2,
     fast_period |-> 12, slow_period |-> 26, signal_period |-> 9,
     trend_direction |-> "AUTO", lookback_candles |-> 5]

NoArgs == BaseArgs(0, NaN, NaN)

\* the part of a handler after `await makeRequest(...)` resolved to d
Compute(t, a, d) ==
    CASE t = "get_historical_data"       -> get_historical_data(a, d)
      [] t = "calculate_moving_averages" -> calculate_moving_averages(a, d)
      [] t = "calculate_rsi"             -> calculate_rsi(a, d)
      [] t = "calculate_bollinger_bands" -> calculate_bollinger_bands(a, d)
      [] t = "calculate_stochastic"      -> calculate_stochastic(a, d)
      [] t = "calculate_williams_r"      -> calculate_williams_r(a, d)
      [] t = "calculate_adx"             -> calculate_adx(a, d)
      [] t = "calculate_support_resistance" -> calculate_support_resistance(a, d)
      [] t = "calculate_volatility_metrics" -> calculate_volatility_metrics(a, d)
      [] t = "calculate_macd"               -> calculate_macd(a, d)
      [] t = "calculate_fibonacci_levels"   -> calculate_fibonacci_levels(a, d)
      [] t = "analyze_candlestick_patterns" -> analyze_candlestick_patterns(a, d)

\* the calls that can be in flight side by side
CallIds == {1, 2}

\* a call that has not started: the fields of Init
IdleCall ==
    [pc |-> "idle", tool |-> "none", args |-> NoArgs, now |-> Num(0),
     validation |-> NoValidation, fetches |-> 0, payload |-> NoPayload,
     result |-> NoResult]

Init ==
    /\ calls = [c \in CallIds |-> IdleCall]
    /\ pc = "idle"
    /\ tool = "none"
    /\ args = NoArgs
    /\ now = Num(0)
    /\ validation = NoValidation
    /\ fetches = 0
    /\ payload = NoPayload
    /\ result = NoResult
    /\ instrumentsData = <<>>
    /\ instrumentsLoaded = FALSE
    /\ loads = [c \in LoadIds |-> IF c = "startup" THEN [IdleLoad EXCEPT !.pc = "fetching"]
                                   ELSE IdleLoad]
    /\ lookup = NoLookup

Call_FetchesFirst(t, a, clock) ==
    /\ pc = "idle"
    /\ tool' = t
    /\ args' = a
    /\ now' = clock
    /\ validation' = validateHistoricalDataRequest(a.interval_in_minutes, a.start_time,
                                                   a.end_time, clock)
    /\ fetches' = fetches + 1
    /\ IF ~validation'.valid
       THEN result' = ConstraintViolation(validation') /\ pc' = "done"
       ELSE result' = result /\ pc' = "awaiting"
    /\ payload' = payload
    /\ UNCHANGED <<calls, catalog>>

\* the handler of tool t is called with parameters a while the clock reads clock:
\* it validates, and either returns the constraint violation or issues the
\* provider request and awaits it
Call(t, a, clock) ==
    /\ pc = "idle"
    /\ tool' = t
    /\ args' = a
    /\ now' = clock
    /\ validation' = validateHistoricalDataRequest(a.interval_in_minutes, a.start_time,
                                                   a.end_time, clock)
    /\ IF ~validation'.valid
       THEN /\ result' = ConstraintViolation(validation')
            /\ pc' = "done"
            /\ fetches' = fetches
       ELSE /\ result' = result
            /\ pc' = "awaiting"
            /\ fetches' = fetches + 1
    /\ payload' = payload
    /\ UNCHANGED <<calls, catalog>>

\* makeRequest resolves to d and the handler runs to its return
Reply(d) ==
    /\ pc = "awaiting"
    /\ payload' = d
    /\ result' = Compute(tool, args, d)
    /\ pc' = "done"
    /\ UNCHANGED <<tool, args, now, validation, fetches, calls, catalog>>

\* makeRequest throws (a failed request, a FAILURE status): the catch block returns
ProviderError ==
    /\ pc = "awaiting"
    /\ result' = Thrown
    /\ pc' = "done"
    /\ UNCHANGED <<tool, args, now, validation, fetches, payload, calls, catalog>>

\* the result is handed to the caller; the server keeps nothing of the call
Return ==
    /\ pc = "done"
    /\ pc' = "idle"
    /\ tool' = "none"
    /\ args' = NoArgs
    /\ now' = Num(0)
    /\ validation' = NoValidation
    /\ fetches' = 0
    /\ payload' = NoPayload
    /\ result' = NoResult
    /\ UNCHANGED <<calls, catalog>>

\* Several calls side by side. Each invocation of a handler has its own
\* parameters and locals; the handlers share no variable they write. A call
\* runs without interruption up to its `await makeRequest(...)`, and the calls
\* interleave there.

single == <<pc, tool, args, now, validation, fetches, payload, result>>

\* call c starts: the handler's synchronous part, as in Call
CallAt(c, t, a, clock) ==
    /\ calls[c].pc = "idle"
    /\ LET v == validateHistoricalDataRequest(a.interval_in_minutes, a.start_time,
                                              a.end_time, clock)
       IN  calls' = [calls EXCEPT ![c] =
                        [pc |-> IF v.valid THEN "awaiting" ELSE "done",
                         tool |-> t, args |-> a, now |-> clock, validation |-> v,
                         fetches |-> IF v.valid THEN 1 ELSE 0,
                         payload |-> NoPayload,
                         result |-> IF v.valid THEN NoResult ELSE ConstraintViolation(v)]]
    /\ UNCHANGED <<single, catalog>>

\* ReplyAt taking the result of call 1 when call 1 has finished with the same tool
ReplyAt_ReusesEarlier(c, d) ==
    /\ calls[c].pc = "awaiting"
    /\ calls' = [calls EXCEPT ![c].payload = d,
                              ![c].result = IF c # 1 /\ calls[1].pc = "done"
                                               /\ calls[1].tool = calls[c].tool
                                            THEN calls[1].result
                                            ELSE Compute(calls[c].tool, calls[c].args, d),
                              ![c].pc = "done"]
    /\ UNCHANGED <<single, catalog>>

\* the request of call c resolves to d and its handler runs to its return
ReplyAt(c, d) ==
    /\ calls[c].pc = "awaiting"
    /\ calls' = [calls EXCEPT ![c].payload = d,
                              ![c].result = Compute(calls[c].tool, calls[c].args, d),
                              ![c].pc = "done"]
    /\ UNCHANGED <<single, catalog>>

\* ProviderErrorAt when the failure of one request fails every request in flight
ProviderErrorAt_FailsAll(c) ==
    /\ calls[c].pc = "awaiting"
    /\ calls' = [o \in CallIds |->
                    IF calls[o].pc = "awaiting"
                    THEN [calls[o] EXCEPT !.result = Thrown, !.pc = "done"]
                    ELSE calls[o]]
    /\ UNCHANGED <<single, catalog>>

\* the request of call c throws: its catch block returns
ProviderErrorAt(c) ==
    /\ calls[c].pc = "awaiting"
    /\ calls' = [calls EXCEPT ![c].result = Thrown, ![c].pc = "done"]
    /\ UNCHANGED <<single, catalog>>

\* the result of call c is handed to its caller
ReturnAt(c) ==
    /\ calls[c].pc = "done"
    /\ calls' = [calls EXCEPT ![c] = IdleCall]
    /\ UNCHANGED <<single, catalog>>

-----------------------------------------------------------------------------
(* The inputs explored *)

MaxPrice == 3       \* prices are 1 .. MaxPrice

MaxLen == 5         \* the provider returns up to MaxLen candles

MaxPeriod == 3      \* window parameters are 0 .. MaxPeriod

MaxHLCPrice == 2    \* prices of the series with distinct high, low and close

MaxOscLen == 3      \* candles returned to calculate_stochastic / calculate_williams_r

MaxOscPeriod == 2   \* their window parameters are 0 .. MaxOscPeriod

MaxAdxLen == 4      \* candles returned to calculate_adx

MaxAdxPeriod == 2   \* its period is 0 .. MaxAdxPeriod

MaxPivots == 3      \* peaks and troughs of a series given to the level tools

MaxTouches == 3     \* min_touches is 0 .. MaxTouches

MaxLookback == 2

MaxPatternLen == 4

MaxFlightLen == 2   \* candles of a series fetched by one of several calls

\* the longest series of the trend detection
MaxSwingLen == 13

Slack == 1          \* hours explored on each side of a whole number of days

NowDay == 2000      \* the day the clock reads

Clock == Num(NowDay * DayLen)

DurationDays == {0, 3, 4, 15, 30, 150, 365, 730, 1080}

AgeDays == {0, 90, 730}

Hours(days) == {d * DayLen + e : d \in days, e \in (-Slack)..Slack}

\* NaN is the getTime() of a string new Date() cannot read
StartTimes == {Sub(Clock, Num(h)) : h \in Hours(AgeDays)} \cup {NaN}

EndTimes(start) == {Add(start, Num(h)) : h \in Hours(DurationDays)} \cup {NaN}

Intervals == SupportedIntervals \cup {-5, 0, 2, 15, 999}

Candle(t, o, h, l, c) ==
    [timestamp |-> t, open |-> Num(o), high |-> Num(h), low |-> Num(l), close |-> Num(c)]

Prices == 1..MaxPrice

\* series whose candles have open = high = low = close: every series as seen by
\* a tool that reads the closes only
CloseSeries(maxLen) ==
    UNION {{[i \in 1..n |-> Candle(i, f[i], f[i], f[i], f[i])] : f \in [1..n -> Prices]}
           : n \in 0..maxLen}

\* <<low, close, high>> of a well-formed candle
HLC == {x \in (1..MaxHLCPrice) \X (1..MaxHLCPrice) \X (1..MaxHLCPrice) :
            x[1] <= x[2] /\ x[2] <= x[3]}

\* every series as seen by a tool that reads high, low and close
HLCSeries(maxLen) ==
    UNION {{[i \in 1..n |-> Candle(i, f[i][2], f[i][3], f[i][1], f[i][2])] : f \in [1..n -> HLC]}
           : n \in 0..maxLen}

Present(candles) == [received |-> TRUE, present |-> TRUE, candles |-> candles]

\* a response without a candles field
Absent == [received |-> TRUE, present |-> FALSE, candles |-> <<>>]

Payloads(series) == {Present(cs) : cs \in series} \cup {Absent}

\* a request inside every limit: daily candles of the last 30 days
ValidArgs == BaseArgs(1440, Sub(Clock, Num(30 * DayLen)), Clock)

Periods == 0..MaxPeriod

-----------------------------------------------------------------------------
(* Spec: every candle tool, over the requests' intervals and time ranges *)

\* the window parameters of Spec: small enough for RampSeries to be enough data
SmallArgs(i, s, e) ==
    [BaseArgs(i, s, e) EXCEPT !.period = 2, !.periods = <<2, 5>>, !.k_period = 2,
                              !.d_period = 1, !.min_touches = 1, !.fast_period = 1,
                              !.slow_period = 2, !.signal_period = 2,
                              !.lookback_candles = 2]

RampSeries(n) == [i \in 1..n |-> Candle(i, i, i + 1, i, i + 1)]

\* a series that rises and falls by 1 with a peak every fourth candle
WaveSeries(n) ==
    [i \in 1..n |-> LET b == IF i % 4 = 3 THEN 3 ELSE IF i % 4 = 1 THEN 1 ELSE 2
                    IN  Candle(i, b, b + 1, b, b + 1)]

CannedPayloads ==
    {Absent, Present(<<>>), Present(RampSeries(1)), Present(RampSeries(4)),
     Present(WaveSeries(MinLevelCandles))}

AnyCall ==
    /\ pc = "idle"
    /\ \E t \in CandleTools, i \in Intervals, s \in StartTimes :
          \E e \in EndTimes(s) : Call(t, SmallArgs(i, s, e), Clock)

CannedReply == pc = "awaiting" /\ \E d \in CannedPayloads : Reply(d)

Next == AnyCall \/ CannedReply \/ ProviderError \/ Return

Spec == Init /\ [][Next]_vars

-----------------------------------------------------------------------------
(* SpecRSI: calculate_rsi over every close series and period *)

CallRSI ==
    /\ pc = "idle"
    /\ \E p \in Periods : Call("calculate_rsi", [ValidArgs EXCEPT !.period = p], Clock)

ReplyCloses == pc = "awaiting" /\ \E d \in Payloads(CloseSeries(MaxLen)) : Reply(d)

NextRSI == CallRSI \/ ReplyCloses \/ ProviderError \/ Return

SpecRSI == Init /\ [][NextRSI]_vars

-----------------------------------------------------------------------------
(* SpecMA: calculate_moving_averages over every close series and period list *)

PeriodLists == {<<p>> : p \in 1..MaxPeriod} \cup {<<p, q>> : p \in 1..MaxPeriod, q \in 1..MaxPeriod}

CallMA ==
    /\ pc = "idle"
    /\ \E ps \in PeriodLists :
          Call("calculate_moving_averages", [ValidArgs EXCEPT !.periods = ps], Clock)

NextMA == CallMA \/ ReplyCloses \/ ProviderError \/ Return

SpecMA == Init /\ [][NextMA]_vars

-----------------------------------------------------------------------------
(* SpecBB: calculate_bollinger_bands over every close series, period and
   multiplier *)

StdDevs == {Num(-1), Num(0), Frac(1, 2), Num(2)}

CallBB ==
    /\ pc = "idle"
    /\ \E p \in Periods, k \in StdDevs :
          Call("calculate_bollinger_bands",
               [ValidArgs EXCEPT !.period = p, !.std_dev = k], Clock)

NextBB == CallBB \/ ReplyCloses \/ ProviderError \/ Return

SpecBB == Init /\ [][NextBB]_vars

-----------------------------------------------------------------------------
(* SpecOsc: calculate_stochastic and calculate_williams_r *)

OscPeriods == 0..MaxOscPeriod

CallStochastic ==
    /\ pc = "idle"
    /\ \E k \in OscPeriods, d \in OscPeriods :
          Call("calculate_stochastic",
               [ValidArgs EXCEPT !.k_period = k, !.d_period = d], Clock)

CallWilliams ==
    /\ pc = "idle"
    /\ \E p \in OscPeriods :
          Call("calculate_williams_r", [ValidArgs EXCEPT !.period = p], Clock)

ReplyOsc == pc = "awaiting" /\ \E d \in Payloads(HLCSeries(MaxOscLen)) : Reply(d)

NextOsc == CallStochastic \/ CallWilliams \/ ReplyOsc \/ ProviderError \/ Return

SpecOsc == Init /\ [][NextOsc]_vars

-----------------------------------------------------------------------------
(* SpecADX: calculate_adx *)

CallADX ==
    /\ pc = "idle"
    /\ \E p \in 0..MaxAdxPeriod :
          Call("calculate_adx", [ValidArgs EXCEPT !.period = p], Clock)

ReplyADX == pc = "awaiting" /\ \E d \in Payloads(HLCSeries(MaxAdxLen)) : Reply(d)

NextADX == CallADX \/ ReplyADX \/ ProviderError \/ Return

SpecADX == Init /\ [][NextADX]_vars

-----------------------------------------------------------------------------
(* SpecSR: calculate_support_resistance over series of peaks and troughs *)

\* the highs of the peaks and the lows of the troughs; every other high is
\* 300, every other low 200 and every open and close 250
PeakPrices == {400, 402, 404, 406, 408, 600}

TroughPrices == {100, 101, 150}

PivotEvents ==
    {[high |-> p, low |-> 200] : p \in PeakPrices}
        \cup {[high |-> 300, low |-> t] : t \in TroughPrices}

\* the events e[1], e[2], ... each with two plain candles on either side, and
\* plain candles after them up to MinLevelCandles candles
PivotSeries(e) ==
    LET n == IF 3 * Len(e) + 2 < MinLevelCandles THEN MinLevelCandles
             ELSE 3 * Len(e) + 2
    IN  [i \in 1..n |->
            IF i % 3 = 0 /\ i \div 3 <= Len(e)
            THEN Candle(i, 250, e[i \div 3].high, e[i \div 3].low, 250)
            ELSE Candle(i, 250, 300, 200, 250)]

PivotSeriesUpTo(k) ==
    UNION {{PivotSeries(e) : e \in [1..n -> PivotEvents]} : n \in 0..k}

CallSR ==
    /\ pc = "idle"
    /\ \E m \in 0..MaxTouches :
          Call("calculate_support_resistance", [ValidArgs EXCEPT !.min_touches = m],
               Clock)

ReplySR ==
    /\ pc = "awaiting"
    /\ \E d \in Payloads(PivotSeriesUpTo(MaxPivots)) \cup {Present(RampSeries(4))} :
          Reply(d)

NextSR == CallSR \/ ReplySR \/ ProviderError \/ Return

SpecSR == Init /\ [][NextSR]_vars

-----------------------------------------------------------------------------
(* SpecFib: calculate_fibonacci_levels over swings between a low and a high *)

SwingPrices == {100, 105, 110, 120}

TrendDirections == {"UP", "DOWN", "AUTO"}

\* n candles spanning low..high, closing at early in the first half and at
\* late in the second
SwingSeries(n, low, high, early, late) ==
    [i \in 1..n |-> Candle(i, early, high, low, IF 2 * i <= n THEN early ELSE late)]

SwingSeriesOf(n) ==
    UNION {{SwingSeries(n, low, high, early, late) : early \in {low, high}, late \in {low, high}}
              : <<low, high>> \in {p \in SwingPrices \X SwingPrices : p[1] <= p[2]}}

CallFib ==
    /\ pc = "idle"
    /\ \E d \in TrendDirections :
          Call("calculate_fibonacci_levels", [ValidArgs EXCEPT !.trend_direction = d], Clock)

ReplyFib ==
    /\ pc = "awaiting"
    /\ \E d \in Payloads(SwingSeriesOf(MinLevelCandles - 1) \cup SwingSeriesOf(MinLevelCandles)
                            \cup SwingSeriesOf(MinLevelCandles + 1)) :
          Reply(d)

NextFib == CallFib \/ ReplyFib \/ ProviderError \/ Return

SpecFib == Init /\ [][NextFib]_vars

-----------------------------------------------------------------------------
(* SpecPattern: analyze_candlestick_patterns over series of candle bodies *)

\* open and close of a falling body of 5, a rising body of 8, their mirrors,
\* a candle without a body, and a falling body of 10
Bodies == {<<100, 95>>, <<94, 102>>, <<95, 100>>, <<102, 94>>, <<100, 100>>, <<103, 93>>}

\* candles without shadows: high and low are the ends of the body
BodySeries(bodies) ==
    [i \in 1..Len(bodies) |->
        LET open  == bodies[i][1]
            close == bodies[i][2]
        IN  Candle(i, open, IF open > close THEN open ELSE close,
                   IF open < close THEN open ELSE close, close)]

BodySeriesUpTo(k) == UNION {{BodySeries(b) : b \in [1..n -> Bodies]} : n \in 0..k}

CallPattern ==
    /\ pc = "idle"
    /\ \E n \in 0..MaxLookback :
          Call("analyze_candlestick_patterns", [ValidArgs EXCEPT !.lookback_candles = n], Clock)

ReplyPattern ==
    /\ pc = "awaiting"
    /\ \E d \in Payloads(BodySeriesUpTo(MaxPatternLen)) : Reply(d)

NextPattern == CallPattern \/ ReplyPattern \/ ProviderError \/ Return

SpecPattern == Init /\ [][NextPattern]_vars

-----------------------------------------------------------------------------
(* SpecFlight: two calls side by side, started at different times *)

FlightTools == {"calculate_rsi", "calculate_bollinger_bands"}

\* the clock when a call starts: now, 80 days later, 90 days later
FlightClocks == {Add(Clock, Num(d * DayLen)) : d \in {0, 80, 90}}

\* hourly candles of one day, 30 days before the first clock: inside the three
\* months of history at the first clock, outside at the later ones
FlightArgs(period) ==
    [BaseArgs(60, Sub(Clock, Num(30 * DayLen)), Sub(Clock, Num(29 * DayLen)))
        EXCEPT !.period = period]

StartAt ==
    \E c \in CallIds :
        /\ calls[c].pc = "idle"
        /\ \E t \in FlightTools, p \in 1..2, clock \in FlightClocks :
              CallAt(c, t, FlightArgs(p), clock)

ResolveAt ==
    \E c \in CallIds :
        /\ calls[c].pc = "awaiting"
        /\ \E d \in Payloads(CloseSeries(MaxFlightLen)) : ReplyAt(c, d)

FailAt == \E c \in CallIds : ProviderErrorAt(c)

FinishAt == \E c \in CallIds : ReturnAt(c)

NextFlight == StartAt \/ ResolveAt \/ FailAt \/ FinishAt

SpecFlight == Init /\ [][NextFlight]_vars

-----------------------------------------------------------------------------
(* SpecDegenerate: the tools that divide, over series with flat stretches and
   closes of 0 *)

DividingTools == {"calculate_adx", "calculate_volatility_metrics",
                  "calculate_bollinger_bands", "calculate_fibonacci_levels"}

\* a candle with open = high = low = close = p
FlatCandle(t, p) == Candle(t, p, p, p, p)

\* series of flat candles at 0, 1 or 2
StepSeries(maxLen) ==
    UNION {{[i \in 1..n |-> FlatCandle(i, f[i])] : f \in [1..n -> 0..2]} : n \in 0..maxLen}

\* n candles, all at price p
LevelSeries(n, p) == [i \in 1..n |-> FlatCandle(i, p)]

CallDegenerate ==
    /\ pc = "idle"
    /\ \E t \in DividingTools, p \in 1..MaxAdxPeriod :
          Call(t, [ValidArgs EXCEPT !.period = p], Clock)

ReplyDegenerate ==
    /\ pc = "awaiting"
    /\ \E d \in Payloads(StepSeries(MaxAdxLen))
                  \cup {Present(LevelSeries(MinLevelCandles, 1)),
                        Present(RampSeries(MinLevelCandles))} :
          Reply(d)

NextDegenerate == CallDegenerate \/ ReplyDegenerate \/ ProviderError \/ Return

SpecDegenerate == Init /\ [][NextDegenerate]_vars

-----------------------------------------------------------------------------
(* SpecEMA: the tools that compute an EMA, calculate_moving_averages and
   calculate_macd *)

CallAverages ==
    /\ pc = "idle"
    /\ \E p \in 1..MaxPeriod :
          Call("calculate_moving_averages", [ValidArgs EXCEPT !.periods = <<p>>], Clock)

CallMACD ==
    /\ pc = "idle"
    /\ \E f \in 1..2, s \in 1..2, g \in 1..2 :
          Call("calculate_macd",
               [ValidArgs EXCEPT !.fast_period = f, !.slow_period = s, !.signal_period = g],
               Clock)

NextEMA == CallAverages \/ CallMACD \/ ReplyCloses \/ ProviderError \/ Return

SpecEMA == Init /\ [][NextEMA]_vars

-----------------------------------------------------------------------------
(* SpecTrend: calculate_adx over series of rising, falling, wide and flat
   candles *)

\* <<high, low, close>>
TrendCandles == {<<2, 1, 1>>, <<2, 1, 2>>, <<3, 2, 3>>, <<3, 1, 2>>, <<3, 3, 3>>, <<4, 1, 2>>}

TrendSeries(maxLen) ==
    UNION {{[i \in 1..n |-> Candle(i, f[i][3], f[i][1], f[i][2], f[i][3])]
               : f \in [1..n -> TrendCandles]} : n \in 0..maxLen}

ReplyTrend == pc = "awaiting" /\ \E d \in Payloads(TrendSeries(MaxAdxLen)) : Reply(d)

NextTrend == CallADX \/ ReplyTrend \/ ProviderError \/ Return

SpecTrend == Init /\ [][NextTrend]_vars

-----------------------------------------------------------------------------
(* SpecPivot: calculate_support_resistance over every series of three kinds
   of candle *)

\* <<high, low>>: an ordinary candle, one with a higher high, one with a lower
\* low
Bars == {<<5, 2>>, <<6, 2>>, <<5, 1>>}

BarSeries(n) ==
    {[i \in 1..n |-> Candle(i, 3, f[i][1], f[i][2], 3)] : f \in [1..n -> Bars]}

\* 0 .. 6 candles, and as many as the tool asks for
BarLengths == 0..6 \cup {MinLevelCandles}

ReplyPivot ==
    /\ pc = "awaiting"
    /\ \E n \in BarLengths : \E cs \in BarSeries(n) : Reply(Present(cs))

NextPivot == CallSR \/ ReplyPivot \/ ProviderError \/ Return

SpecPivot == Init /\ [][NextPivot]_vars

-----------------------------------------------------------------------------
(* SpecNearest: calculate_support_resistance over series that end at a price
   below, between or above their levels *)

NearEvents ==
    {[high |-> p, low |-> 200] : p \in {400, 402, 600}}
        \cup {[high |-> 300, low |-> t] : t \in {100, 101, 150}}

LastCloses == {120, 250, 500, 700}

\* PivotSeries(e), two more plain candles, and a last candle that closes at c
ClosingSeries(e, c) ==
    LET n == Len(PivotSeries(e))
    IN  PivotSeries(e) \o <<Candle(n + 1, 250, 300, 200, 250),
                            Candle(n + 2, 250, 300, 200, 250),
                            Candle(n + 3, 250, IF c > 300 THEN c ELSE 300,
                                   IF c < 200 THEN c ELSE 200, c)>>

ReplyNearest ==
    /\ pc = "awaiting"
    /\ \E n \in 0..MaxPivots, c \in LastCloses :
          \E e \in [1..n -> NearEvents] : Reply(Present(ClosingSeries(e, c)))

NextNearest == CallSR \/ ReplyNearest \/ ProviderError \/ Return

SpecNearest == Init /\ [][NextNearest]_vars

-----------------------------------------------------------------------------
(* SpecQuarter: calculate_fibonacci_levels over series whose first and last
   candles close at either of two prices *)

EdgeCloses == {100, 110}

\* the longest quarter of a series
EdgeLen == MaxSwingLen \div 4

\* n candles spanning 90..120 that close at 105, but for the first and the last
\* EdgeLen of them, which close at early[i] and late[i]
QuarterSeries(n, early, late) ==
    [i \in 1..n |->
        Candle(i, 105, 120, 90,
               IF i <= EdgeLen THEN early[i]
               ELSE IF i > n - EdgeLen THEN late[i - (n - EdgeLen)]
               ELSE 105)]

ReplyQuarter ==
    /\ pc = "awaiting"
    /\ \E n \in (MinLevelCandles - 1)..MaxSwingLen :
          \E early \in [1..EdgeLen -> EdgeCloses], late \in [1..EdgeLen -> EdgeCloses] :
             Reply(Present(QuarterSeries(n, early, late)))

NextQuarter == CallFib \/ ReplyQuarter \/ ProviderError \/ Return

SpecQuarter == Init /\ [][NextQuarter]_vars

-----------------------------------------------------------------------------
(* SpecShadow: analyze_candlestick_patterns over candles with shadows *)

\* open, high, low, close of: a rising and a falling candle with a long lower
\* shadow, a rising candle with a long upper shadow, a rising candle whose
\* lower shadow is twice its body, a candle without a body, a candle without a
\* body whose high lies below it and below its low, and a falling candle
\* without shadows
Shapes ==
    {<<100, 102, 90, 102>>, <<102, 102, 90, 100>>, <<100, 112, 100, 102>>,
     <<100, 102, 96, 102>>, <<100, 101, 90, 100>>, <<100, 95, 98, 100>>,
     <<110, 110, 100, 100>>}

ShapeSeries(shapes) ==
    [i \in 1..Len(shapes) |->
        Candle(i, shapes[i][1], shapes[i][2], shapes[i][3], shapes[i][4])]

ReplyShadow ==
    /\ pc = "awaiting"
    /\ \E n \in 0..MaxPatternLen :
          \E shapes \in [1..n -> Shapes] : Reply(Present(ShapeSeries(shapes)))

NextShadow == CallPattern \/ ReplyShadow \/ ProviderError \/ Return

SpecShadow == Init /\ [][NextShadow]_vars

-----------------------------------------------------------------------------
(* SpecInstruments: the runs of loadInstruments side by side, and the tools
   that read the instruments *)

\* "trading_symbol,exchange,name\nA,NSE,a b\nAB,BSE,b", a text with blanks, a
\* short line and no name column, and an empty text
CsvTexts ==
    {<<"trading_symbol", ",", "exchange", ",", "name", "\n",
       "A", ",", "NSE", ",", "a", " ", "b", "\n",
       "A", "B", ",", "BSE", ",", "b">>,
     <<"trading_symbol", ",", " ", "exchange", "\n",
       " ", "B", " ", ",", "NSE", "\n",
       "A", "\n">>,
     <<>>}

untouched == <<pc, tool, args, now, validation, fetches, payload, result, calls>>

\* download_instruments_csv up to the await of fetch inside loadInstruments
StartDownload(c) ==
    /\ loads[c].pc = "idle"
    /\ loads' = [loads EXCEPT ![c].pc = "fetching"]
    /\ UNCHANGED <<instrumentsData, instrumentsLoaded, lookup, untouched>>

\* fetch resolving with the flag set before the text is there
FetchResolves_MarksLoaded(c) ==
    /\ loads[c].pc = "fetching"
    /\ loads' = [loads EXCEPT ![c].pc = "reading"]
    /\ instrumentsLoaded' = TRUE
    /\ UNCHANGED <<instrumentsData, lookup, untouched>>

\* fetch resolves: loadInstruments goes on to await response.text()
FetchResolves(c) ==
    /\ loads[c].pc = "fetching"
    /\ loads' = [loads EXCEPT ![c].pc = "reading"]
    /\ UNCHANGED <<instrumentsData, instrumentsLoaded, lookup, untouched>>

\* fetch rejects: the catch block
FetchRejects(c) ==
    /\ loads[c].pc = "fetching"
    /\ instrumentsLoaded' = FALSE
    /\ loads' = [loads EXCEPT ![c].pc = "settled"]
    /\ UNCHANGED <<instrumentsData, lookup, untouched>>

\* response.text() resolves with csvData: the rest of the try block
TextResolves(c, csvData) ==
    /\ loads[c].pc = "reading"
    /\ instrumentsData' = parseCsv(csvData)
    /\ instrumentsLoaded' = TRUE
    /\ loads' = [loads EXCEPT ![c].pc = "settled", ![c].response = csvData,
                              ![c].succeeded = TRUE]
    /\ UNCHANGED <<lookup, untouched>>

\* response.text() rejects: the catch block
TextRejects(c) ==
    /\ loads[c].pc = "reading"
    /\ instrumentsLoaded' = FALSE
    /\ loads' = [loads EXCEPT ![c].pc = "settled"]
    /\ UNCHANGED <<instrumentsData, lookup, untouched>>

\* download_instruments_csv after its await of loadInstruments
DownloadReturns(c) ==
    /\ loads[c].pc = "settled"
    /\ loads' = [loads EXCEPT ![c].pc = "done",
                              ![c].result = download_instruments_csv(instrumentsLoaded,
                                                                     instrumentsData)]
    /\ UNCHANGED <<instrumentsData, instrumentsLoaded, lookup, untouched>>

Queries == {<<>>, <<"a">>, <<"A", "b">>}

SearchArgs ==
    [query : Queries, exchange : {All, <<"NSE">>}, segment : {All, <<"CASH">>},
     instrument_type : {All}, limit : {1, 10}]

DetailArgs == [trading_symbol : {<<"a">>, <<"b">>, <<"x">>}, exchange : {Undefined, <<"BSE">>}]

Search(a) ==
    /\ lookup' = [tool |-> "search_instruments", args |-> a,
                  returned |-> search_instruments(a, instrumentsLoaded, instrumentsData)]
    /\ UNCHANGED <<instrumentsData, instrumentsLoaded, loads, untouched>>

Details(a) ==
    /\ lookup' = [tool |-> "get_instrument_details", args |-> a,
                  returned |-> get_instrument_details(a, instrumentsLoaded, instrumentsData)]
    /\ UNCHANGED <<instrumentsData, instrumentsLoaded, loads, untouched>>

Download == \E c \in DownloadCalls : StartDownload(c)

Fetched == \E c \in LoadIds : FetchResolves(c)

FetchFailed == \E c \in LoadIds : FetchRejects(c)

TextRead == \E c \in LoadIds, csvData \in CsvTexts : TextResolves(c, csvData)

TextFailed == \E c \in LoadIds : TextRejects(c)

Downloaded == \E c \in DownloadCalls : DownloadReturns(c)

Searched == \E a \in SearchArgs : Search(a)

Detailed == \E a \in DetailArgs : Details(a)

NextInstruments ==
    Download \/ Fetched \/ FetchFailed \/ TextRead \/ TextFailed \/ Downloaded
        \/ Searched \/ Detailed

SpecInstruments == Init /\ [][NextInstruments]_vars

-----------------------------------------------------------------------------
(* Claims about validateHistoricalDataRequest and the order of validation
   and fetch, under Spec *)

Validated == pc # "idle"

ClaimedIntervals == {1, 5, 10, 60, 240, 1440, 10080}

\* C1: an interval is rejected as unsupported exactly when it is not one of
\* 1, 5, 10, 60, 240, 1440, 10080; such a rejection names the interval and
\* makes the request invalid.
C1_UnsupportedExactlyOutsideTheSet ==
    Validated =>
        /\ (validation.error = "Unsupported interval")
              <=> (args.interval_in_minutes \notin ClaimedIntervals)
        /\ validation.error = "Unsupported interval"
              => /\ ~validation.valid
                 /\ validation.requested = Num(args.interval_in_minutes)

C1_Witness ==
    /\ pc = "done"
    /\ args.interval_in_minutes = 999
    /\ validation.error = "Unsupported interval"
    /\ result.kind = "constraint_violation"

\* the limits the specification states, in days; 0 stands for unbounded
ClaimedMaxDays(i) ==
    CASE i = 1 -> 3 [] i = 5 -> 15 [] i = 10 -> 30 [] i = 60 -> 150
      [] i = 240 -> 365 [] i = 1440 -> 1080 [] i = 10080 -> 0

\* the ceiling of h hours in whole days
CeilDays(h) == IF h % DayLen = 0 THEN h \div DayLen ELSE (h \div DayLen) + 1

RequestHours == args.end_time.n - args.start_time.n

TimesReadable == IsFinite(args.start_time) /\ IsFinite(args.end_time)

\* C2: for a supported interval the duration is the ceiling of end - start in
\* whole days; the request is rejected whenever it exceeds the interval's
\* maxDurationDays, it is rejected for its duration only then (with that limit
\* and that duration reported), and never at interval 10080.
C2_DurationCeilingAgainstLimit ==
    (Validated /\ args.interval_in_minutes \in ClaimedIntervals) =>
        LET i        == args.interval_in_minutes
            exceeded == /\ TimesReadable
                        /\ i # 10080
                        /\ CeilDays(RequestHours) > ClaimedMaxDays(i)
        IN  /\ exceeded => ~validation.valid
            /\ (validation.error = "Duration too long") <=> exceeded
            /\ exceeded => /\ validation.requested = Num(CeilDays(RequestHours))
                           /\ validation.max = Num(ClaimedMaxDays(i))

C2_Witness ==
    /\ Validated
    /\ args.interval_in_minutes = 1
    /\ TimesReadable
    /\ RequestHours = 3 * DayLen + 1
    /\ validation.error = "Duration too long"
    /\ validation.requested = Num(4)

AgeHours == now.n - args.start_time.n

HistoryBounded == {1, 5, 10, 60, 240}

\* C3: for a supported interval the age is now - start in 30-day months; with
\* a duration inside its limit, the request is rejected as too old exactly
\* when the interval is one of 1, 5, 10, 60, 240 and the age exceeds 3 months;
\* such a request is rejected in any case; at 1440 and 10080 no request is
\* rejected for its age, and a daily request from 2 years ago to now is valid.
C3_AgeAgainstHistoryLimit ==
    (Validated /\ args.interval_in_minutes \in ClaimedIntervals) =>
        LET i      == args.interval_in_minutes
            tooOld == /\ IsFinite(args.start_time)
                      /\ i \in HistoryBounded
                      /\ AgeHours > 3 * 30 * DayLen
        IN  /\ tooOld => ~validation.valid
            /\ validation.error = "Data too old" => tooOld /\ validation.max = Num(3)
            /\ (tooOld /\ validation.error # "Duration too long")
                  => validation.error = "Data too old"
            /\ (/\ i = 1440
                /\ TimesReadable
                /\ AgeHours = 730 * DayLen
                /\ args.end_time = now) => validation.valid

C3_Witness ==
    /\ pc = "awaiting"
    /\ args.interval_in_minutes = 1440
    /\ TimesReadable
    /\ AgeHours = 730 * DayLen
    /\ args.end_time = now
    /\ validation.valid

C4_State ==
    /\ fetches \in {0, 1}
    /\ fetches = 1 => Validated /\ validation.valid
    /\ pc = "awaiting" => validation.valid /\ fetches = 1
    /\ (Validated /\ ~validation.valid)
          => /\ pc = "done"
             /\ fetches = 0
             /\ payload = NoPayload
             /\ result = ConstraintViolation(validation)
    /\ result.kind = "constraint_violation" => Validated /\ ~validation.valid

\* a rejected call ends: its only step is the return of its result
C4_Step ==
    (Validated /\ ~validation.valid) => (pc' = "idle" /\ fetches' = 0)

\* C4: in every candle tool the validation runs before the provider fetch: a
\* request is issued only for a call whose validation passed; a rejected call
\* issues none, returns the constraint violation and is not retried.
C4_ValidationBeforeFetch == [](tool \in CandleTools \cup {"none"} /\ C4_State) /\ [][C4_Step]_vars

C4_Witness ==
    /\ pc = "done"
    /\ tool = "calculate_adx"
    /\ validation.error = "Data too old"
    /\ result.kind = "constraint_violation"
    /\ result.error = "Data too old"
    /\ fetches = 0

-----------------------------------------------------------------------------
(* Claims about the indicator computations *)

Computed(t) == pc = "done" /\ tool = t /\ payload.received

Returned == IF payload.present THEN Len(payload.candles) ELSE 0

InPercentRange(x) == Ge(x, Num(0)) /\ Le(x, Num(100))

AllOf(xs, P(_)) == \A i \in 1..Len(xs) : P(xs[i])

NotNaN(x) == ~IsNaN(x)

\* the window ending at candle i (counted from 0) is flat
FlatWindow(i, period) ==
    Eq(highest_high(payload.candles, i, period), lowest_low(payload.candles, i, period))

\* some window the loop visits is flat
SomeFlatWindow(period) ==
    /\ period >= 1
    /\ \E i \in (period - 1)..(Returned - 1) : FlatWindow(i, period)

\* C5: in calculate_stochastic and calculate_williams_r, whenever a trailing
\* window is flat (highest high = lowest low) the computation reports an error;
\* no %K, %D or %R value it produces is NaN.
C5_FlatWindowReportsError ==
    /\ (Computed("calculate_stochastic") /\ result.kind # "insufficient_data")
          => /\ SomeFlatWindow(args.k_period) => result.kind = "error"
             /\ result.kind = "ok"
                   => AllOf(result.kValues, NotNaN) /\ AllOf(result.dValues, NotNaN)
    /\ (Computed("calculate_williams_r") /\ result.kind # "insufficient_data")
          => /\ SomeFlatWindow(args.period) => result.kind = "error"
             /\ result.kind = "ok" => AllOf(result.williamsR, NotNaN)

\* a flat series meets a window of one candle: %K, %D are NaN and no error
C5_Witness ==
    /\ Computed("calculate_stochastic")
    /\ args.k_period = 1 /\ args.d_period = 1
    /\ Returned = 2
    /\ SomeFlatWindow(1)
    /\ result.kind = "ok"
    /\ IsNaN(result.currentK) /\ IsNaN(result.currentD)

\* the closes returned, as integers
CloseAt(k) == payload.candles[k].close.n

NoLosingStep == \A k \in 1..(Returned - 1) : CloseAt(k + 1) >= CloseAt(k)

RsiEntryInRange(e) ==
    /\ InPercentRange(e.value)
    /\ Eq(e.avgLoss, Num(0)) => Eq(e.value, Num(100))

\* C6: every RSI value computed by calculate_rsi lies in [0, 100], and equals
\* 100 whenever the average loss is 0, in particular when the series has no
\* losing step.
C6_RsiWithinBounds ==
    (Computed("calculate_rsi") /\ result.kind = "ok")
       => /\ AllOf(result.trace, RsiEntryInRange)
          /\ NoLosingStep => \A i \in 1..Len(result.rsiValues) :
                                Eq(result.rsiValues[i], Num(100))

\* period 0 on two candles: the averages are 0 / 0 and the RSI reported is NaN
C6_Witness ==
    /\ Computed("calculate_rsi")
    /\ args.period = 0
    /\ Returned = 2
    /\ result.kind = "ok"
    /\ IsNaN(result.latestRSI)

\* for a period of at least 1 the values are in range
RsiWithinBoundsForPositivePeriod == args.period >= 1 => C6_RsiWithinBounds

\* C7: calculate_rsi reports insufficient data, with the needed and available
\* counts, when fewer than period + 1 candles are returned, and produces an RSI
\* value, not an error, for every series of at least period + 1 candles.
C7_RsiFromPeriodPlusOneCandles ==
    Computed("calculate_rsi")
       => IF Returned < args.period + 1
          THEN /\ result.kind = "insufficient_data"
               /\ result.need = args.period + 1
               /\ result.have = Returned
          ELSE /\ result.kind = "ok"
               /\ Len(result.rsiValues) >= 1

\* exactly period + 1 candles: the loop pushes nothing and the handler throws
C7_Witness ==
    /\ Computed("calculate_rsi")
    /\ args.period = 2
    /\ Returned = args.period + 1
    /\ result.kind = "error"

\* C8: for every candle series accepted by calculate_adx, each +DI, -DI, DX and
\* ADX value computed is in [0, 100].
C8_AdxValuesInRange ==
    (Computed("calculate_adx") /\ result.kind = "ok")
       => /\ AllOf(result.plusDI, InPercentRange)
          /\ AllOf(result.minusDI, InPercentRange)
          /\ AllOf(result.dx, InPercentRange)
          /\ AllOf(result.adx, InPercentRange)

FlatSeries ==
    \A k \in 1..Returned :
       /\ payload.candles[k].high = payload.candles[1].close
       /\ payload.candles[k].low = payload.candles[1].close
       /\ payload.candles[k].close = payload.candles[1].close

\* a flat series of 2 * period candles: the smoothed true range is 0 and the
\* values reported are NaN
C8_Witness ==
    /\ Computed("calculate_adx")
    /\ args.period = 2
    /\ Returned = 4
    /\ FlatSeries
    /\ result.kind = "ok"
    /\ IsNaN(result.currentPlusDI) /\ IsNaN(result.currentMinusDI)
    /\ IsNaN(result.currentADX)

\* the same claim for the periods of at least 1 only
AdxValuesInRangeForPositivePeriod == args.period >= 1 => C8_AdxValuesInRange

\* the naive reference: closes[from] + ... + closes[to], positions counted
\* from 1
RECURSIVE WindowSum(_, _)
WindowSum(from, to) == IF from > to THEN 0 ELSE CloseAt(to) + WindowSum(from, to - 1)

\* x is the mean of closes[from .. to]
IsMeanOf(x, from, to) ==
    /\ IsFinite(x)
    /\ x.n * (to - from + 1) = x.d * WindowSum(from, to)

\* the element of `results` for a period p of at most n closes
SmaAsSpecified(r, p) ==
    /\ r.kind = "ok"
    /\ Len(r.smaValues) = Returned - p + 1
    /\ \A j \in 1..(Returned - p + 1) : IsMeanOf(r.smaValues[j], j, j + p - 1)
    /\ Eq(r.latestSMA, r.smaValues[Returned - p + 1])

\* the element of `results` for a period p of more than n closes
NotEnoughAsSpecified(r, p) ==
    /\ r.kind = "not_enough"
    /\ r.need = p /\ r.have = Returned
    /\ DOMAIN r \cap {"smaValues", "emaValues", "latestSMA", "latestEMA"} = {}

\* C9: for every period p >= 1 and n >= p closes, calculate_moving_averages
\* computes exactly n - p + 1 SMA values, the j-th being the arithmetic mean of
\* closes[j .. j+p-1]; for p > n it computes no SMA or EMA and returns a
\* not-enough-data result for that period (of no closes at all, the no-data
\* result of the whole call).
C9_SmaLengthAndWindowMeans ==
    Computed("calculate_moving_averages")
       => IF Returned = 0
          THEN result = NoData
          ELSE /\ result.kind = "ok"
               /\ Len(result.results) = Len(args.periods)
               /\ \A k \in 1..Len(args.periods) :
                     IF args.periods[k] <= Returned
                     THEN SmaAsSpecified(result.results[k], args.periods[k])
                     ELSE NotEnoughAsSpecified(result.results[k], args.periods[k])

\* one call with a period that fits (several windows) and one that does not
C9_Witness ==
    /\ Computed("calculate_moving_averages")
    /\ args.periods = <<2, 3>>
    /\ Returned = 2
    /\ CloseAt(1) # CloseAt(2)
    /\ result.kind = "ok"
    /\ result.results[1].kind = "ok"
    /\ result.results[2].kind = "not_enough"

\* several windows of one period
C9_WitnessWindows ==
    /\ Computed("calculate_moving_averages")
    /\ args.periods = <<2>>
    /\ Returned = 4
    /\ CloseAt(1) < CloseAt(2) /\ CloseAt(3) > CloseAt(4)
    /\ Len(result.results[1].smaValues) = 3

\* C10: for every series and every non-negative std_dev, the bands computed by
\* calculate_bollinger_bands satisfy lowerBand <= sma <= upperBand, where sma
\* is the mean of the last `period` closes.
C10_BandsBracketSma ==
    (Computed("calculate_bollinger_bands") /\ result.kind = "ok"
        /\ Ge(args.std_dev, Num(0)))
       => /\ Le(result.lowerBand, result.sma)
          /\ Le(result.sma, result.upperBand)
          /\ IsMeanOf(result.sma, Returned - args.period + 1, Returned)

\* period 0: sma is a sum divided by 0 and the lower band is NaN
C10_Witness ==
    /\ Computed("calculate_bollinger_bands")
    /\ args.period = 0
    /\ args.std_dev = Num(2)
    /\ Returned = 2
    /\ result.kind = "ok"
    /\ ~IsFinite(result.sma)
    /\ IsNaN(result.lowerBand)

\* the same claim for the periods of at least 1 only
BandsBracketSmaForPositivePeriod == args.period >= 1 => C10_BandsBracketSma

-----------------------------------------------------------------------------
(* Claims about the level tools *)

\* the members of a group that were pivots before the instant t
MembersBefore(group, t) ==
    LET Earlier(q) == q.timestamp < t
    IN  SelectSeq(group, Earlier)

RECURSIVE PriceTotal(_)
PriceTotal(group) ==
    IF group = <<>> THEN 0
    ELSE group[Len(group)].price.n + PriceTotal(SubSeq(group, 1, Len(group) - 1))

\* |p - mean| / mean <= 1/100 for the mean of a non-empty group of positive
\* whole prices, in whole numbers
NearMean(p, group) ==
    LET total == PriceTotal(group)
        off   == p.price.n * Len(group) - total
    IN  100 * (IF off < 0 THEN -off ELSE off) <= total

\* groups is the grouping of pivots the claim describes
GroupedInOrder(pivots, groups) ==
    /\ \A k \in 1..Len(pivots) :
          Cardinality({x \in {<<g, j>> : g \in 1..Len(groups), j \in 1..MaxPivots + 1} :
                          /\ x[2] <= Len(groups[x[1]])
                          /\ groups[x[1]][x[2]] = pivots[k]}) = 1
    /\ \A g \in 1..Len(groups) :
          /\ groups[g] # <<>>
          /\ \A j \in 1..Len(groups[g]) : \E k \in 1..Len(pivots) : groups[g][j] = pivots[k]
          /\ \A j \in 2..Len(groups[g]) :
                groups[g][j - 1].timestamp < groups[g][j].timestamp
          /\ g > 1 => groups[g - 1][1].timestamp < groups[g][1].timestamp
    /\ \A g \in 1..Len(groups) : \A j \in 1..Len(groups[g]) :
          LET p == groups[g][j]
          IN  /\ j > 1 => NearMean(p, SubSeq(groups[g], 1, j - 1))
              /\ \A h \in 1..(g - 1) :
                    ~NearMean(p, MembersBefore(groups[h], p.timestamp))

\* C11: groupLevels takes the pivots in their original order; each joins the
\* first existing group whose running mean price is within 1% of it, or else
\* starts a new group, and every pivot ends in exactly one group.
C11_PivotsGroupedInOrder ==
    (Computed("calculate_support_resistance") /\ result.kind = "ok")
       => /\ GroupedInOrder(result.pivotHighs, groupsOf(result.pivotHighs))
          /\ GroupedInOrder(result.pivotLows, groupsOf(result.pivotLows))

\* pivots at 400, 402 and 600 (100, 100.5 and 150 four times over): the groups
\* are {400, 402} and {600}
C11_Witness ==
    /\ Computed("calculate_support_resistance")
    /\ result.kind = "ok"
    /\ [i \in 1..Len(result.pivotHighs) |-> result.pivotHighs[i].price]
          = <<Num(400), Num(402), Num(600)>>
    /\ LET groups == groupsOf(result.pivotHighs)
       IN  /\ Len(groups) = 2
           /\ groups[1] = SubSeq(result.pivotHighs, 1, 2)
           /\ groups[2] = SubSeq(result.pivotHighs, 3, 3)

\* a pivot that fits two groups joins the first: 400, 408, 404
C11_WitnessFirstOfTwo ==
    /\ Computed("calculate_support_resistance")
    /\ result.kind = "ok"
    /\ [i \in 1..Len(result.pivotHighs) |-> result.pivotHighs[i].price]
          = <<Num(400), Num(408), Num(404)>>
    /\ LET groups == groupsOf(result.pivotHighs)
       IN  /\ Len(groups) = 2
           /\ Len(groups[1]) = 2
           /\ groups[1][2].price = Num(404)

\* the greatest timestamp of a non-empty group
LatestTouch(group) ==
    CHOOSE t \in {group[j].timestamp : j \in 1..Len(group)} :
        \A j \in 1..Len(group) : group[j].timestamp <= t

\* level is the Level of group
LevelOfGroup(level, group) ==
    /\ IsFinite(level.price)
    /\ level.price.n * Len(group) = level.price.d * PriceTotal(group)
    /\ level.touches = Len(group)
    /\ level.lastTouch = Num(LatestTouch(group))

\* levels are the Levels of the groups of pivots with at least min_touches
\* members, one each, the most touched first
LevelsAsSpecified(levels, pivots) ==
    LET groups == groupsOf(pivots)
        strong == {g \in 1..Len(groups) : Len(groups[g]) >= args.min_touches}
    IN  /\ Len(levels) = Cardinality(strong)
        /\ \A i \in 1..Len(levels) :
              /\ levels[i].touches >= args.min_touches
              /\ \E g \in strong : LevelOfGroup(levels[i], groups[g])
        /\ \A g \in strong : \E i \in 1..Len(levels) : LevelOfGroup(levels[i], groups[g])
        /\ \A i \in 1..Len(levels) : \A j \in i..Len(levels) :
              levels[i].touches >= levels[j].touches

\* C12: every Level of calculate_support_resistance comes from a group of at
\* least min_touches pivots, with price the mean of the group's prices, touches
\* the group's size and lastTouch its greatest timestamp; smaller groups give no
\* Level; the resistance and support lists are ordered by touches descending.
C12_LevelsFromStrongGroups ==
    (Computed("calculate_support_resistance") /\ result.kind = "ok")
       => /\ LevelsAsSpecified(result.resistanceLevels, result.pivotHighs)
          /\ LevelsAsSpecified(result.supportLevels, result.pivotLows)

\* pivots at 600, 400, 402 with min_touches 2: the single pivot at 600 gives no
\* Level, the group {400, 402} gives the Level 401 with 2 touches
C12_Witness ==
    /\ Computed("calculate_support_resistance")
    /\ result.kind = "ok"
    /\ args.min_touches = 2
    /\ [i \in 1..Len(result.pivotHighs) |-> result.pivotHighs[i].price]
          = <<Num(600), Num(400), Num(402)>>
    /\ Len(result.resistanceLevels) = 1
    /\ result.resistanceLevels[1].price = Num(401)
    /\ result.resistanceLevels[1].touches = 2
    /\ result.resistanceLevels[1].lastTouch = Num(9)

\* the same pivots with min_touches 1: the sort moves the later, stronger group
\* to the front
C12_WitnessSorted ==
    /\ Computed("calculate_support_resistance")
    /\ result.kind = "ok"
    /\ args.min_touches = 1
    /\ [i \in 1..Len(result.pivotHighs) |-> result.pivotHighs[i].price]
          = <<Num(600), Num(400), Num(402)>>
    /\ [i \in 1..Len(result.resistanceLevels) |-> result.resistanceLevels[i].touches]
          = <<2, 1>>

-----------------------------------------------------------------------------
(* Claims about calculate_fibonacci_levels *)

ClaimedRetracements ==
    <<Num(0), Frac(236, 1000), Frac(382, 1000), Frac(1, 2), Frac(618, 1000),
      Frac(786, 1000), Num(1)>>

\* the candles' highest high and lowest low
SwingHigh == CHOOSE h \in {payload.candles[i].high : i \in 1..Len(payload.candles)} :
                \A i \in 1..Len(payload.candles) : Le(payload.candles[i].high, h)

SwingLow == CHOOSE l \in {payload.candles[i].low : i \in 1..Len(payload.candles)} :
               \A i \in 1..Len(payload.candles) : Le(l, payload.candles[i].low)

\* C13: for an UP trend the retracement at ratio r is high - r * (high - low),
\* for a DOWN trend low + r * (high - low), for r in 0, 0.236, 0.382, 0.5,
\* 0.618, 0.786, 1; every retracement level lies in [low, high] and the 50%
\* level is the midpoint of low and high.
C13_RetracementsWithinSwing ==
    (Computed("calculate_fibonacci_levels") /\ result.kind = "ok")
       => LET high  == SwingHigh
              low   == SwingLow
              swing == Sub(high, low)
              rs    == result.retracementLevels
          IN  /\ result.direction \in {"UP", "DOWN"}
              /\ args.trend_direction # "AUTO" => result.direction = args.trend_direction
              /\ Len(rs) = Len(ClaimedRetracements)
              /\ \A i \in 1..Len(rs) :
                    /\ rs[i].ratio = ClaimedRetracements[i]
                    /\ result.direction = "UP"
                          => rs[i].price = Sub(high, Mul(ClaimedRetracements[i], swing))
                    /\ result.direction = "DOWN"
                          => rs[i].price = Add(low, Mul(ClaimedRetracements[i], swing))
                    /\ Le(low, rs[i].price)
                    /\ Le(rs[i].price, high)
              /\ Mul(rs[4].price, Num(2)) = Add(low, high)

\* high 120, low 100, trend UP: the 50% level is 110
C13_Witness ==
    /\ Computed("calculate_fibonacci_levels")
    /\ result.kind = "ok"
    /\ args.trend_direction = "UP"
    /\ result.high = Num(120)
    /\ result.low = Num(100)
    /\ result.retracementLevels[4].price = Num(110)
    /\ result.retracementLevels[2].price = Frac(11528, 100)

\* the same swing with the trend DOWN: the 23.6% level is 104.72
C13_WitnessDown ==
    /\ Computed("calculate_fibonacci_levels")
    /\ result.kind = "ok"
    /\ result.direction = "DOWN"
    /\ result.high = Num(120)
    /\ result.low = Num(100)
    /\ result.retracementLevels[2].price = Frac(10472, 100)

-----------------------------------------------------------------------------
(* Claims about analyze_candlestick_patterns *)

\* the candles the tool looks at: the last lookback_candles + 2
AnalysedWindow ==
    LET n    == Len(payload.candles)
        size == args.lookback_candles + 2
    IN  [i \in 1..size |-> payload.candles[n - size + i]]

Engulfs(A, B) ==
    /\ Lt(B.open, A.close)
    /\ Gt(B.close, A.open)
    /\ Gt(Abs(Sub(B.close, B.open)), Abs(Sub(A.close, A.open)))

Emitted(name, position) ==
    \E k \in 1..Len(result.patterns) :
        result.patterns[k].name = name /\ result.patterns[k].position = position

\* C14: whenever two consecutive candles A then B of the analysed window have
\* A bearish, B bullish, B.open < A.close, B.close > A.open and
\* bodySize(B) > bodySize(A), a Bullish Engulfing pattern is emitted at B's
\* position (counted from 0 in the window); Bearish Engulfing under the
\* mirrored conditions.
C14_EngulfingPairsEmitted ==
    (Computed("analyze_candlestick_patterns") /\ result.kind = "ok")
       => \A j \in 1..(Len(AnalysedWindow) - 1) :
             LET A == AnalysedWindow[j]
                 B == AnalysedWindow[j + 1]
             IN  /\ (Lt(A.close, A.open) /\ Gt(B.close, B.open) /\ Engulfs(A, B))
                       => Emitted("BULLISH ENGULFING", j)
                 /\ (Gt(A.close, A.open) /\ Lt(B.close, B.open)
                        /\ Gt(B.open, A.close) /\ Lt(B.close, A.open)
                        /\ Gt(Abs(Sub(B.close, B.open)), Abs(Sub(A.close, A.open))))
                       => Emitted("BEARISH ENGULFING", j)

\* A {open 100, close 95} then B {open 94, close 102} as the second and third
\* candles of the window: Bullish Engulfing at position 2
C14_Witness ==
    /\ Computed("analyze_candlestick_patterns")
    /\ result.kind = "ok"
    /\ Len(AnalysedWindow) = 4
    /\ AnalysedWindow[2].open = Num(100) /\ AnalysedWindow[2].close = Num(95)
    /\ AnalysedWindow[3].open = Num(94) /\ AnalysedWindow[3].close = Num(102)
    /\ Emitted("BULLISH ENGULFING", 2)

\* the same A and B as the first and second candles of the window: nothing is
\* emitted at position 1
C14_WitnessFirstPair ==
    /\ Computed("analyze_candlestick_patterns")
    /\ result.kind = "ok"
    /\ Len(AnalysedWindow) = 4
    /\ AnalysedWindow[1].open = Num(100) /\ AnalysedWindow[1].close = Num(95)
    /\ AnalysedWindow[2].open = Num(94) /\ AnalysedWindow[2].close = Num(102)
    /\ ~Emitted("BULLISH ENGULFING", 1)

-----------------------------------------------------------------------------
(* Claims about repeated and simultaneous calls *)

Started(c) == calls[c].pc # "idle"

Finished(c) == calls[c].pc = "done"

SameRequest(c1, c2) ==
    /\ Started(c1) /\ Started(c2)
    /\ calls[c1].tool = calls[c2].tool
    /\ calls[c1].args = calls[c2].args

\* finished on the same series: the same response of the provider
SameSeries(c1, c2) ==
    /\ Finished(c1) /\ Finished(c2)
    /\ calls[c1].payload.received /\ calls[c2].payload.received
    /\ calls[c1].payload = calls[c2].payload

C15_WitnessClock ==
    /\ SameRequest(1, 2)
    /\ calls[1].validation.valid
    /\ ~calls[2].validation.valid
    /\ Lt(calls[1].now, calls[2].now)

\* C16: with several calls in flight, a step of one call (its start, the arrival
\* of its series, the failure of its request, its return) leaves every other
\* call as it was, and a call that received its series returns what its tool
\* computes from its own parameters and that series.
C16_CallsDoNotInterfere ==
    [][\A c \in CallIds :
          calls'[c] # calls[c]
             => /\ \A o \in CallIds \ {c} : calls'[o] = calls[o]
                /\ (calls'[c].pc = "done" /\ calls'[c].payload.received)
                      => calls'[c].result
                            = Compute(calls'[c].tool, calls'[c].args, calls'[c].payload)]_vars

\* the request of call 1 failed while call 2 was awaiting its series
C16_Witness ==
    /\ calls[1].pc = "done"
    /\ calls[1].result.kind = "error"
    /\ calls[2].pc = "awaiting"

\* call 1 was rejected by the validation while call 2 received its series and
\* produced bands
C16_WitnessBoth ==
    /\ calls[1].pc = "done"
    /\ calls[1].result.kind = "constraint_violation"
    /\ calls[2].pc = "done"
    /\ calls[2].result.kind = "ok"

-----------------------------------------------------------------------------
(* Claims about divisions by zero *)

\* C17: no tool other than calculate_rsi returns values obtained from a zero
\* denominator: a zero smoothed true range in calculate_adx, a single return
\* or a zero previous close in calculate_volatility_metrics, bands of zero
\* width in calculate_bollinger_bands and a zero high-low range in
\* calculate_fibonacci_levels are reported instead of computed with.
C17_ZeroDenominatorsReported ==
    /\ (Computed("calculate_adx") /\ result.kind = "ok")
          => \A i \in 1..Len(result.smoothedTR) : ~IsZero(result.smoothedTR[i])
    /\ (Computed("calculate_volatility_metrics") /\ result.kind = "ok")
          => /\ Len(result.returns) # 1
             /\ \A i \in 1..(Returned - 1) : ~IsZero(payload.candles[i].close)
    /\ (Computed("calculate_bollinger_bands") /\ result.kind = "ok")
          => ~Eq(result.upperBand, result.lowerBand)
    /\ (Computed("calculate_fibonacci_levels") /\ result.kind = "ok")
          => ~IsZero(result.range)

\* calculate_volatility_metrics on two candles: one return, the variance is 0 / 0
C17_Witness ==
    /\ Computed("calculate_volatility_metrics")
    /\ result.kind = "ok"
    /\ Returned = 2
    /\ ~IsZero(payload.candles[1].close)
    /\ Len(result.returns) = 1
    /\ IsNaN(result.variance)
    /\ IsNaN(result.annualizedVolatility)

\* calculate_volatility_metrics after a close of 0: the return is infinite
C17_WitnessZeroClose ==
    /\ Computed("calculate_volatility_metrics")
    /\ result.kind = "ok"
    /\ Returned = 3
    /\ IsZero(payload.candles[1].close)
    /\ ~IsFinite(result.returns[1])
    /\ ~IsFinite(result.meanReturn)

\* calculate_adx on a flat series: both DI are 0 / 0
C17_WitnessAdx ==
    /\ Computed("calculate_adx")
    /\ result.kind = "ok"
    /\ IsZero(result.smoothedTR[1])
    /\ IsNaN(result.currentADX)

\* calculate_bollinger_bands on equal closes: the band position is 0 / 0
C17_WitnessBands ==
    /\ Computed("calculate_bollinger_bands")
    /\ result.kind = "ok"
    /\ Eq(result.upperBand, result.lowerBand)
    /\ IsNaN(result.bandPosition)

\* calculate_fibonacci_levels on a flat series: every level is the price, and
\* nothing is reported
C17_WitnessFibonacci ==
    /\ Computed("calculate_fibonacci_levels")
    /\ result.kind = "ok"
    /\ IsZero(result.range)
    /\ \A i \in 1..Len(result.allLevels) : result.allLevels[i].price = result.high

-----------------------------------------------------------------------------
(* Claims about the oscillators' ranges *)

\* the window ending at candle i (counted from 0): its candles have
\* low <= close <= high and its highest high exceeds its lowest low
RangedWindow(i, period) ==
    /\ \A k \in (i - period + 2)..(i + 1) :
          /\ Le(payload.candles[k].low, payload.candles[k].close)
          /\ Le(payload.candles[k].close, payload.candles[k].high)
    /\ Gt(highest_high(payload.candles, i, period), lowest_low(payload.candles, i, period))

\* the window of the j-th value pushed: the loop starts at i = period - 1
WindowOf(j, period) == period - 1 + (j - 1)

EveryWindowRanged(period) ==
    \A i \in (period - 1)..(Returned - 1) : RangedWindow(i, period)

\* C18: for every trailing window whose candles have low <= close <= high and
\* whose highest high exceeds its lowest low, the Williams %R value is in
\* [-100, 0] and the Stochastic %K value is in [0, 100]; where every window is
\* such, every %D is in [0, 100].
C18_OscillatorsInRange ==
    /\ (Computed("calculate_williams_r") /\ result.kind = "ok")
          => \A j \in 1..Len(result.williamsR) :
                RangedWindow(WindowOf(j, args.period), args.period)
                   => /\ Ge(result.williamsR[j], Num(-100))
                      /\ Le(result.williamsR[j], Num(0))
    /\ (Computed("calculate_stochastic") /\ result.kind = "ok")
          => /\ \A j \in 1..Len(result.kValues) :
                   RangedWindow(WindowOf(j, args.k_period), args.k_period)
                      => InPercentRange(result.kValues[j])
             /\ EveryWindowRanged(args.k_period)
                   => AllOf(result.dValues, InPercentRange)

\* calculate_stochastic with d_period = 0 on windows that all have a range:
\* every %K is in [0, 100] and every %D is 0 / 0
C18_Witness ==
    /\ Computed("calculate_stochastic")
    /\ result.kind = "ok"
    /\ args.k_period = 2 /\ args.d_period = 0
    /\ Returned = 3
    /\ EveryWindowRanged(args.k_period)
    /\ AllOf(result.kValues, InPercentRange)
    /\ IsNaN(result.currentD)

\* for a d_period of at least 1 every value is in range
OscillatorsInRangeForPositivePeriod == args.d_period >= 1 => C18_OscillatorsInRange

\* three %K values of ranged windows and their %D, all in range
OscillatorsInRangeWitness ==
    /\ Computed("calculate_stochastic")
    /\ result.kind = "ok"
    /\ args.k_period = 1 /\ args.d_period = 2
    /\ EveryWindowRanged(args.k_period)
    /\ Len(result.kValues) = 3 /\ Len(result.dValues) = 2
    /\ result.kValues[1] # result.kValues[2]

-----------------------------------------------------------------------------
(* Claims about the EMAs *)

ReturnedCloses == [i \in 1..Returned |-> payload.candles[i].close]

\* the SMA of the first period values
FirstMean(values, period) == Div(Sum(SubSeq(values, 1, period)), Num(period))

\* ema is an EMA of values with the given period whose first element belongs to
\* values[first]: the multiplier is 2 / (period + 1), the seed is the first
\* value or the SMA of the first period values, and every later element follows
\* the recurrence
EmaAsSpecified(ema, values, period, first) ==
    LET k == Div(Num(2), Num(period + 1))
    IN  /\ Len(ema) = Len(values) - first + 1
        /\ \/ ema[1] = values[1]
           \/ period <= Len(values) /\ ema[1] = FirstMean(values, period)
        /\ \A i \in 2..Len(ema) :
              ema[i] = Add(Mul(values[first + i - 1], k), Mul(ema[i - 1], Sub(Num(1), k)))

\* C19: every EMA of calculate_moving_averages and of calculate_macd (fast,
\* slow and signal) uses the multiplier 2 / (period + 1), is seeded with the
\* first available value or with the SMA of the first period values, and obeys
\* ema[i] = values[i] * k + ema[i-1] * (1 - k) for every later element.
C19_EmaSeedAndRecurrence ==
    /\ (Computed("calculate_moving_averages") /\ result.kind = "ok")
          => \A j \in 1..Len(result.results) :
                result.results[j].kind = "ok"
                   => EmaAsSpecified(result.results[j].emaValues, ReturnedCloses,
                                     args.periods[j], args.periods[j])
    /\ (Computed("calculate_macd") /\ result.kind = "ok")
          => /\ EmaAsSpecified(result.fastEMA, ReturnedCloses, args.fast_period, 1)
             /\ EmaAsSpecified(result.slowEMA, ReturnedCloses, args.slow_period, 1)
             /\ EmaAsSpecified(result.signalLine, result.macdLine, args.signal_period, 1)

\* calculate_moving_averages with period 2 on closes 1, 3, 2: the EMA starts at
\* 3, which is neither the first close 1 nor the SMA 2 of the first two
C19_Witness ==
    /\ Computed("calculate_moving_averages")
    /\ result.kind = "ok"
    /\ args.periods = <<2>>
    /\ ReturnedCloses = <<Num(1), Num(3), Num(2)>>
    /\ result.results[1].emaValues[1] = Num(3)
    /\ FirstMean(ReturnedCloses, 2) = Num(2)
    /\ result.results[1].emaValues[2] = Frac(7, 3)

\* the EMAs of calculate_macd are as stated
MacdEmaSeedAndRecurrence == tool = "calculate_macd" => C19_EmaSeedAndRecurrence

\* calculate_macd on closes 1, 3, 2 with fast period 1 and slow period 2: each
\* EMA starts at its first value
MacdEmaWitness ==
    /\ Computed("calculate_macd")
    /\ result.kind = "ok"
    /\ args.fast_period = 1 /\ args.slow_period = 2 /\ args.signal_period = 1
    /\ ReturnedCloses = <<Num(1), Num(3), Num(2)>>
    /\ result.slowEMA = <<Num(1), Frac(7, 3), Frac(19, 9)>>
    /\ result.signalLine[1] = Num(0)

-----------------------------------------------------------------------------
(* Claims about the ADX series *)

\* adx is the ADX of dx: the mean of the first period DX values, then
\* Wilder's smoothing of each later one
AdxAsSpecified(adx, dx, period) ==
    /\ Len(dx) >= period
    /\ Len(adx) = Len(dx) - period + 1
    /\ adx[1] = Div(Sum(SubSeq(dx, 1, period)), Num(period))
    /\ \A i \in 2..Len(adx) :
          adx[i] = Div(Add(Mul(adx[i - 1], Num(period - 1)), dx[period + i - 1]), Num(period))

\* C20: calculate_adx reports insufficient data for fewer than 2 * period
\* candles; for every series of at least 2 * period candles (period >= 1) the
\* DX series has at least period elements and an ADX value is produced, the
\* first being the simple mean of the first period DX values and each later one
\* the Wilder smoothing of the next DX value.
C20_AdxProducedFromTwicePeriod ==
    Computed("calculate_adx")
       => IF Returned < 2 * args.period
          THEN /\ result.kind = "insufficient_data"
               /\ result.need = 2 * args.period
               /\ result.have = Returned
          ELSE (payload.present /\ args.period >= 1)
                  => /\ result.kind = "ok"
                     /\ AdxAsSpecified(result.adx, result.dx, args.period)
                     /\ result.currentADX = result.adx[Len(result.adx)]

\* exactly 2 * period candles with period 2: two DX values, different, and one
\* ADX value, their mean
C20_Witness ==
    /\ Computed("calculate_adx")
    /\ result.kind = "ok"
    /\ args.period = 2
    /\ Returned = 4
    /\ Len(result.dx) = 2
    /\ IsFinite(result.dx[1]) /\ IsFinite(result.dx[2])
    /\ result.dx[1] # result.dx[2]
    /\ Len(result.adx) = 1

\* period 1 on four candles: a seed and two smoothed values
C20_WitnessSmoothed ==
    /\ Computed("calculate_adx")
    /\ result.kind = "ok"
    /\ args.period = 1
    /\ Returned = 4
    /\ Len(result.adx) = 3
    /\ IsFinite(result.adx[3])
    /\ result.adx[3] # result.adx[2]

\* one candle short of 2 * period
C20_WitnessShort ==
    /\ Computed("calculate_adx")
    /\ args.period = 2
    /\ Returned = 3
    /\ result.kind = "insufficient_data"

-----------------------------------------------------------------------------
(* Claims about the directional movement *)

\* max(x, 0)
Positive(x) == IF Gt(x, Num(0)) THEN x ELSE Num(0)

\* high - prevHigh and prevLow - low of the step into candle k + 1
UpMove(k) == Sub(payload.candles[k + 1].high, payload.candles[k].high)

DownMove(k) == Sub(payload.candles[k].low, payload.candles[k + 1].low)

\* C21: for every pair of consecutive candles in calculate_adx, +DM is
\* max(high - prevHigh, 0) when that exceeds max(prevLow - low, 0) and 0
\* otherwise, -DM is the symmetric value; both are non-negative and at most one
\* of them is non-zero at each step.
C21_DirectionalMovement ==
    (Computed("calculate_adx") /\ result.kind = "ok")
       => /\ Len(result.plusDMs) = Returned - 1
          /\ Len(result.minusDMs) = Returned - 1
          /\ \A k \in 1..(Returned - 1) :
                LET up   == Positive(UpMove(k))
                    down == Positive(DownMove(k))
                IN  /\ result.plusDMs[k] = IF Gt(up, down) THEN up ELSE Num(0)
                    /\ result.minusDMs[k] = IF Gt(down, up) THEN down ELSE Num(0)
                    /\ Ge(result.plusDMs[k], Num(0))
                    /\ Ge(result.minusDMs[k], Num(0))
                    /\ IsZero(result.plusDMs[k]) \/ IsZero(result.minusDMs[k])

\* a candle that reaches 1 higher and 2 lower than the one before: +DM is 0
\* and -DM is 2
C21_Witness ==
    /\ Computed("calculate_adx")
    /\ result.kind = "ok"
    /\ \E k \in 1..(Returned - 1) :
          /\ UpMove(k) = Num(1) /\ DownMove(k) = Num(2)
          /\ result.plusDMs[k] = Num(0)
          /\ result.minusDMs[k] = Num(2)

\* a candle that reaches 1 higher and 1 lower: both are 0
C21_WitnessTie ==
    /\ Computed("calculate_adx")
    /\ result.kind = "ok"
    /\ \E k \in 1..(Returned - 1) :
          /\ UpMove(k) = Num(1) /\ DownMove(k) = Num(1)
          /\ IsZero(result.plusDMs[k]) /\ IsZero(result.minusDMs[k])

\* a candle inside the one before: both movements are negative and both DM 0
C21_WitnessInside ==
    /\ Computed("calculate_adx")
    /\ result.kind = "ok"
    /\ \E k \in 1..(Returned - 1) :
          /\ Lt(UpMove(k), Num(0)) /\ Lt(DownMove(k), Num(0))
          /\ Gt(UpMove(k), DownMove(k))
          /\ IsZero(result.plusDMs[k]) /\ IsZero(result.minusDMs[k])

-----------------------------------------------------------------------------
(* Claims about the pivots *)

HighAt(i) == payload.candles[i + 1].high

LowAt(i) == payload.candles[i + 1].low

\* positions counted from 0, as the claim counts them
PivotHighAt(i) ==
    /\ i \in 2..(Returned - 3)
    /\ \A j \in {i - 2, i - 1, i + 1, i + 2} : Gt(HighAt(i), HighAt(j))

PivotLowAt(i) ==
    /\ i \in 2..(Returned - 3)
    /\ \A j \in {i - 2, i - 1, i + 1, i + 2} : Lt(LowAt(i), LowAt(j))

\* pivots are the candles at the positions satisfying IsPivot, in order, each with
\* the price Price gives it (the timestamp of the candle at position i is i + 1)
PivotsAre(pivots, IsPivot(_), Price(_)) ==
    /\ Len(pivots) = Cardinality({i \in 0..(Returned - 1) : IsPivot(i)})
    /\ \A j \in 1..Len(pivots) :
          /\ IsPivot(pivots[j].timestamp - 1)
          /\ pivots[j].price = Price(pivots[j].timestamp - 1)
          /\ j > 1 => pivots[j - 1].timestamp < pivots[j].timestamp

PivotsAsSpecified ==
    /\ result.kind = "ok"
    /\ PivotsAre(result.pivotHighs, PivotHighAt, HighAt)
    /\ PivotsAre(result.pivotLows, PivotLowAt, LowAt)

\* C22: in calculate_support_resistance index i is a pivot high exactly when
\* high[i] is strictly greater than high[i-2], high[i-1], high[i+1] and
\* high[i+2] (pivot low symmetric), so only indices 2..n-3 can be pivots; the
\* detection is performed for every series of at least 5 candles.
C22_PivotsFromFiveCandles ==
    (Computed("calculate_support_resistance") /\ Returned >= 5) => PivotsAsSpecified

\* five candles with a peak in the middle: no pivot is looked for
C22_Witness ==
    /\ Computed("calculate_support_resistance")
    /\ Returned = 5
    /\ PivotHighAt(2)
    /\ result.kind = "insufficient_data"

\* from 10 candles on the pivots are as stated
PivotsFromTenCandles ==
    (Computed("calculate_support_resistance") /\ Returned >= MinLevelCandles)
       => PivotsAsSpecified

\* ten candles with two pivot highs and a pivot low
PivotsFromTenCandlesWitness ==
    /\ Computed("calculate_support_resistance")
    /\ Returned = MinLevelCandles
    /\ result.kind = "ok"
    /\ Len(result.pivotHighs) = 2
    /\ Len(result.pivotLows) = 1

-----------------------------------------------------------------------------
(* Claims about the nearest levels *)

LastClose == payload.candles[Returned].close

\* found is the first of levels that satisfies Beyond, or NoLevel when none does
FirstLevel(found, levels, Beyond(_)) ==
    IF \E i \in 1..Len(levels) : Beyond(levels[i])
    THEN \E i \in 1..Len(levels) :
            /\ found = levels[i]
            /\ Beyond(levels[i])
            /\ \A j \in 1..(i - 1) : ~Beyond(levels[j])
    ELSE found = NoLevel

AboveLastClose(level) == Gt(level.price, LastClose)

BelowLastClose(level) == Lt(level.price, LastClose)

\* C23: the nearest resistance reported is the first Level, in the order of
\* descending touches, whose price is strictly greater than the last close, and
\* the nearest support the first Level in that order whose price is strictly
\* less than it; none is reported when there is no such Level.
C23_NearestIsFirstBeyondPrice ==
    (Computed("calculate_support_resistance") /\ result.kind = "ok")
       => /\ result.currentPrice = LastClose
          /\ FirstLevel(result.nearestResistance, result.resistanceLevels, AboveLastClose)
          /\ FirstLevel(result.nearestSupport, result.supportLevels, BelowLastClose)
          /\ \A i \in 1..(Len(result.resistanceLevels) - 1) :
                result.resistanceLevels[i].touches >= result.resistanceLevels[i + 1].touches

\* levels 401 (2 touches) and 600 (1 touch) with the last close at 500: the
\* first level is passed over and 600 is reported; no support exists
C23_Witness ==
    /\ Computed("calculate_support_resistance")
    /\ result.kind = "ok"
    /\ LastClose = Num(500)
    /\ Len(result.resistanceLevels) = 2
    /\ result.resistanceLevels[1].price = Num(401)
    /\ result.nearestResistance = result.resistanceLevels[2]
    /\ result.nearestResistance.price = Num(600)
    /\ result.nearestSupport = NoLevel

\* levels 600 (2 touches) and 400 (1 touch) with the last close at 250: the
\* level reported is 600, the first in the order of touches
C23_WitnessStrongest ==
    /\ Computed("calculate_support_resistance")
    /\ result.kind = "ok"
    /\ LastClose = Num(250)
    /\ Len(result.resistanceLevels) = 2
    /\ result.resistanceLevels[2].price = Num(400)
    /\ result.nearestResistance.price = Num(600)

\* the last close above every level: no resistance is reported
C23_WitnessNone ==
    /\ Computed("calculate_support_resistance")
    /\ result.kind = "ok"
    /\ LastClose = Num(700)
    /\ Len(result.resistanceLevels) = 2
    /\ result.nearestResistance = NoLevel

-----------------------------------------------------------------------------
(* Claims about the trend direction *)

\* the mean close of the returned candles from .. to
MeanClose(from, to) ==
    Div(Sum([i \in 1..(to - from + 1) |-> payload.candles[from + i - 1].close]),
        Num(to - from + 1))

QuarterLen == Returned \div 4

MeanEarly == MeanClose(1, QuarterLen)

MeanLate == MeanClose(Returned - QuarterLen + 1, Returned)

\* C24: an explicit UP or DOWN is used unchanged; with AUTO the direction is UP
\* exactly when the mean close of the last floor(n/4) candles is strictly
\* greater than the mean close of the first floor(n/4) candles and DOWN
\* otherwise, and both quarters are non-empty for every accepted series.
C24_DirectionFromQuarters ==
    (Computed("calculate_fibonacci_levels") /\ result.kind = "ok")
       => /\ QuarterLen >= 1
          /\ args.trend_direction # "AUTO" => result.direction = args.trend_direction
          /\ args.trend_direction = "AUTO"
                => /\ result.direction \in {"UP", "DOWN"}
                   /\ result.direction = "UP" <=> Gt(MeanLate, MeanEarly)

\* 12 candles, AUTO: the quarters are 3 candles long and their means are equal
\* although their candles differ, so the direction is DOWN
C24_Witness ==
    /\ Computed("calculate_fibonacci_levels")
    /\ result.kind = "ok"
    /\ args.trend_direction = "AUTO"
    /\ Returned = 12
    /\ CloseAt(1) = 100 /\ CloseAt(2) = 110 /\ CloseAt(3) = 110
    /\ CloseAt(10) = 110 /\ CloseAt(11) = 110 /\ CloseAt(12) = 100
    /\ Eq(MeanLate, MeanEarly)
    /\ result.direction = "DOWN"

\* AUTO finds UP from the means although the last close is below the first
C24_WitnessUp ==
    /\ Computed("calculate_fibonacci_levels")
    /\ result.kind = "ok"
    /\ args.trend_direction = "AUTO"
    /\ Returned = 13
    /\ CloseAt(1) = 110 /\ CloseAt(13) = 100
    /\ Gt(MeanLate, MeanEarly)
    /\ result.direction = "UP"

\* with 11 candles the quarters are 2 candles long: the third candle and the
\* third from the end do not count
C24_WitnessShortQuarter ==
    /\ Computed("calculate_fibonacci_levels")
    /\ result.kind = "ok"
    /\ args.trend_direction = "AUTO"
    /\ Returned = 11
    /\ CloseAt(1) = 100 /\ CloseAt(2) = 100 /\ CloseAt(3) = 110
    /\ CloseAt(9) = 100 /\ CloseAt(10) = 110 /\ CloseAt(11) = 110
    /\ result.direction = "UP"

\* an explicit direction against the closes
C24_WitnessExplicit ==
    /\ Computed("calculate_fibonacci_levels")
    /\ result.kind = "ok"
    /\ args.trend_direction = "UP"
    /\ Lt(MeanLate, MeanEarly)
    /\ result.direction = "UP"

-----------------------------------------------------------------------------
(* Claims about the single-candle patterns *)

Rising(c) == Gt(c.close, c.open)

Falling(c) == Lt(c.close, c.open)

Body(c) == Abs(Sub(c.close, c.open))

ShadowAbove(c) == Sub(c.high, Max2(c.open, c.close))

ShadowBelow(c) == Sub(Min2(c.open, c.close), c.low)

\* lowerShadow > 2 * bodySize and upperShadow < 0.5 * bodySize
HammerShaped(c) ==
    /\ Gt(ShadowBelow(c), Mul(Num(2), Body(c)))
    /\ Lt(ShadowAbove(c), Mul(Frac(1, 2), Body(c)))

\* upperShadow > 2 * bodySize and lowerShadow < 0.5 * bodySize
StarShaped(c) ==
    /\ Gt(ShadowAbove(c), Mul(Num(2), Body(c)))
    /\ Lt(ShadowBelow(c), Mul(Frac(1, 2), Body(c)))

\* low <= min(open, close) <= max(open, close) <= high
WellFormed(c) ==
    /\ Le(c.low, Min2(c.open, c.close))
    /\ Le(Max2(c.open, c.close), c.high)

\* the positions of the candles the loop analyses, counted from 0 in the window
AnalysedPositions == 1..(Len(AnalysedWindow) - 2)

Current(p) == AnalysedWindow[p + 1]

Prior(p) == AnalysedWindow[p]

SingleNames == {"HAMMER", "HANGING MAN", "SHOOTING STAR"}

OnlyAnalysedPositions ==
    \A k \in 1..Len(result.patterns) :
        result.patterns[k].name \in SingleNames
           => result.patterns[k].position \in AnalysedPositions

C25_WitnessStar ==
    /\ Computed("analyze_candlestick_patterns")
    /\ result.kind = "ok"
    /\ Len(AnalysedWindow) = 4
    /\ Rising(Prior(2)) /\ StarShaped(Current(2)) /\ Emitted("SHOOTING STAR", 2)

\* none after a falling candle
C25_WitnessStarAfterFall ==
    /\ Computed("analyze_candlestick_patterns")
    /\ result.kind = "ok"
    /\ Falling(Prior(1)) /\ StarShaped(Current(1)) /\ ~Emitted("SHOOTING STAR", 1)

\* a lower shadow of exactly twice the body is no Hammer
C25_WitnessBoundary ==
    /\ Computed("analyze_candlestick_patterns")
    /\ result.kind = "ok"
    /\ Falling(Prior(1)) /\ Rising(Current(1))
    /\ ShadowBelow(Current(1)) = Mul(Num(2), Body(Current(1)))
    /\ ShadowAbove(Current(1)) = Num(0)
    /\ ~Emitted("HAMMER", 1)

\* open = close = 100 with the high at 95: the geometry holds after a rising
\* candle and no Hanging Man is emitted
C25_WitnessNoBody ==
    /\ Computed("analyze_candlestick_patterns")
    /\ result.kind = "ok"
    /\ Rising(Prior(1))
    /\ HammerShaped(Current(1))
    /\ Current(1).open = Current(1).close
    /\ ~Emitted("HANGING MAN", 1)

-----------------------------------------------------------------------------
(* Claims about patterns that exclude each other *)

LongNames == {"LONG BULLISH CANDLE", "LONG BEARISH CANDLE"}

EmittedAny(names, position) == \E name \in names : Emitted(name, position)

\* no two of the patterns that exclude each other at position p, and a Long
\* Bearish Candle only where the close is below the open
Exclusive(p) ==
    /\ ~(Emitted("HAMMER", p) /\ Emitted("HANGING MAN", p))
    /\ ~(EmittedAny({"HAMMER", "HANGING MAN"}, p) /\ Emitted("SHOOTING STAR", p))
    /\ ~(Emitted("DOJI", p) /\ EmittedAny(LongNames, p))
    /\ Emitted("LONG BEARISH CANDLE", p) => Falling(Current(p))

\* C29: for candles with low <= min(open, close) <= max(open, close) <= high,
\* no candle position receives both Hammer and Hanging Man, nor Hammer or
\* Hanging Man together with Shooting Star, nor Doji together with a Long
\* candle, and a Long Bearish Candle is emitted only for a candle with
\* close < open.
C29_PatternsExclusive ==
    (Computed("analyze_candlestick_patterns") /\ result.kind = "ok")
       => \A p \in AnalysedPositions :
             WellFormed(Current(p)) => Exclusive(p)

\* well-formed candles: a Hanging Man without a Shooting Star at 1, a Doji
\* without a Long candle at 2
C29_Witness ==
    /\ Computed("analyze_candlestick_patterns")
    /\ result.kind = "ok"
    /\ Len(AnalysedWindow) = 4
    /\ \A i \in 1..3 : WellFormed(AnalysedWindow[i])
    /\ Emitted("HANGING MAN", 1)
    /\ ~Emitted("SHOOTING STAR", 1) /\ ~Emitted("HAMMER", 1)
    /\ Emitted("DOJI", 2)
    /\ ~EmittedAny(LongNames, 2)

\* a Long Bearish Candle for a well-formed falling candle
C29_WitnessLong ==
    /\ Computed("analyze_candlestick_patterns")
    /\ result.kind = "ok"
    /\ WellFormed(Current(1))
    /\ Falling(Current(1))
    /\ Emitted("LONG BEARISH CANDLE", 1)
    /\ ~Emitted("DOJI", 1)

\* a candle whose high lies below its low: a Long Bearish Candle although its
\* close equals its open
C29_WitnessIllFormed ==
    /\ Computed("analyze_candlestick_patterns")
    /\ result.kind = "ok"
    /\ ~WellFormed(Current(1))
    /\ Current(1).close = Current(1).open
    /\ Emitted("LONG BEARISH CANDLE", 1)

-----------------------------------------------------------------------------
(* Claims about the order of the patterns *)

PositionsNeverDecrease ==
    \A k \in 1..(Len(result.patterns) - 1) :
        result.patterns[k].position <= result.patterns[k + 1].position

\* the patterns shown are the last three of the list, and no pattern left out
\* lies at a later position than one that is shown
LatestShown ==
    LET n     == Len(result.patterns)
        shown == IF n > 3 THEN 3 ELSE n
    IN  /\ result.recentPatterns = SubSeq(result.patterns, n - shown + 1, n)
        /\ \A k \in 1..(n - shown), m \in (n - shown + 1)..n :
              result.patterns[k].position <= result.patterns[m].position

\* C26: patterns are emitted in encounter order and the most recent are
\* surfaced: along the emitted pattern list the candle positions never
\* decrease, so the last three entries (the ones shown) are patterns at the
\* latest positions.
C26_PatternsInPositionOrder ==
    (Computed("analyze_candlestick_patterns") /\ result.kind = "ok")
       => PositionsNeverDecrease /\ LatestShown

\* a falling candle {open 100, close 95} at position 1 engulfed by the rising
\* {open 94, close 102} at position 2: the engulfing pattern of position 2
\* precedes the Long Bearish Candle of position 1
C26_Witness ==
    /\ Computed("analyze_candlestick_patterns")
    /\ result.kind = "ok"
    /\ Len(result.patterns) >= 2
    /\ result.patterns[1] = pattern("BULLISH ENGULFING", "BULLISH REVERSAL", 2)
    /\ result.patterns[2] = pattern("LONG BEARISH CANDLE", "BEARISH CONTINUATION", 1)

\* bodies 100 -> 95, 94 -> 102, 103 -> 93 at positions 1, 2, 3: the patterns
\* are at positions 2, 1, 3, 2, and the one left out lies at a later position
\* than the Long Bearish Candle of position 1, which is shown
C26_WitnessShown ==
    /\ Computed("analyze_candlestick_patterns")
    /\ result.kind = "ok"
    /\ [k \in 1..Len(result.patterns) |-> result.patterns[k].position] = <<2, 1, 3, 2>>
    /\ result.recentPatterns[1].position = 1
    /\ ~LatestShown

-----------------------------------------------------------------------------
(* Claims about the RSI reported *)

ChangeInto(k) == Sub(payload.candles[k + 1].close, payload.candles[k].close)

ReturnedGains ==
    [k \in 1..(Returned - 1) |-> IF Gt(ChangeInto(k), Num(0)) THEN ChangeInto(k) ELSE Num(0)]

ReturnedLosses ==
    [k \in 1..(Returned - 1) |-> IF Lt(ChangeInto(k), Num(0)) THEN Abs(ChangeInto(k)) ELSE Num(0)]

\* avg smoothed over xs[k], xs[k + 1], ... up to the last of xs
RECURSIVE WilderOver(_, _, _, _)
WilderOver(avg, xs, k, period) ==
    IF k > Len(xs) THEN avg
    ELSE WilderOver(Div(Add(Mul(avg, Num(period - 1)), xs[k]), Num(period)), xs, k + 1, period)

\* the simple mean of the first period values, smoothed over all later ones
AverageOverAll(xs, period) == WilderOver(FirstMean(xs, period), xs, period + 1, period)

RsiFrom(avgGain, avgLoss) ==
    IF Eq(avgLoss, Num(0)) THEN Num(100)
    ELSE Sub(Num(100), Div(Num(100), Add(Num(1), Div(avgGain, avgLoss))))

\* C27: the RSI value reported reflects every price change of the series: the
\* average gain and average loss are the simple mean of the first period
\* changes, Wilder-smoothed over all later changes up to and including the
\* change into the last candle.
C27_RsiReflectsEveryChange ==
    (Computed("calculate_rsi") /\ result.kind = "ok")
       => result.latestRSI = RsiFrom(AverageOverAll(ReturnedGains, args.period),
                                     AverageOverAll(ReturnedLosses, args.period))

\* period 1 and the closes 1, 2, 1: the RSI reported is 100, from the rise
\* alone, and the averages over every change give 0
C27_Witness ==
    /\ Computed("calculate_rsi")
    /\ result.kind = "ok"
    /\ args.period = 1
    /\ Returned = 3
    /\ CloseAt(1) = 1 /\ CloseAt(2) = 2 /\ CloseAt(3) = 1
    /\ result.latestRSI = Num(100)
    /\ RsiFrom(AverageOverAll(ReturnedGains, 1), AverageOverAll(ReturnedLosses, 1)) = Num(0)

\* the averages of the RSI reported are smoothed over the changes before the
\* change into the last candle
RsiLeavesOutLastChange ==
    (Computed("calculate_rsi") /\ result.kind = "ok" /\ args.period >= 1)
       => LET gains  == SubSeq(ReturnedGains, 1, Returned - 2)
              losses == SubSeq(ReturnedLosses, 1, Returned - 2)
          IN  result.latestRSI = RsiFrom(AverageOverAll(gains, args.period),
                                         AverageOverAll(losses, args.period))

-----------------------------------------------------------------------------
(* Claims about the outcome of the validation as a whole *)

DurationExceeded ==
    /\ TimesReadable
    /\ args.interval_in_minutes # 10080
    /\ CeilDays(RequestHours) > ClaimedMaxDays(args.interval_in_minutes)

AgeExceeded ==
    /\ IsFinite(args.start_time)
    /\ args.interval_in_minutes \in HistoryBounded
    /\ AgeHours > 3 * 30 * DayLen

\* C28: for a supported interval the request is valid exactly when the
\* ceiling-day duration does not exceed maxDurationDays and the age does not
\* exceed a bounded maxHistoryMonths, so a request whose end precedes its start
\* or whose start lies in the future is accepted; when several conditions fail,
\* the reason reported is the first failing one in the order unsupported
\* interval, duration, age.
C28_ValidExactlyWithinLimits ==
    Validated =>
        IF args.interval_in_minutes \notin ClaimedIntervals
        THEN ~validation.valid /\ validation.error = "Unsupported interval"
        ELSE /\ validation.valid <=> (~DurationExceeded /\ ~AgeExceeded)
             /\ validation.valid <=> validation.error = "none"
             /\ DurationExceeded => validation.error = "Duration too long"
             /\ (~DurationExceeded /\ AgeExceeded) => validation.error = "Data too old"

\* a request of 4 days that starts 730 days back, at interval 1: too long and
\* too old, and the reason reported is the duration
C28_Witness ==
    /\ pc = "done"
    /\ args.interval_in_minutes = 1
    /\ TimesReadable
    /\ DurationExceeded /\ AgeExceeded
    /\ RequestHours = 4 * DayLen
    /\ AgeHours = 730 * DayLen
    /\ validation.error = "Duration too long"
    /\ result.kind = "constraint_violation"

\* the end an hour before the start
C28_WitnessEndBeforeStart ==
    /\ pc = "awaiting"
    /\ args.interval_in_minutes = 60
    /\ TimesReadable
    /\ RequestHours < 0
    /\ validation.valid

\* the start an hour after the clock
C28_WitnessFutureStart ==
    /\ pc = "awaiting"
    /\ args.interval_in_minutes = 1
    /\ TimesReadable
    /\ AgeHours < 0
    /\ RequestHours > 0
    /\ validation.valid

\* too old only
C28_WitnessTooOld ==
    /\ pc = "done"
    /\ args.interval_in_minutes = 240
    /\ ~DurationExceeded /\ AgeExceeded
    /\ validation.error = "Data too old"

-----------------------------------------------------------------------------
(* Claims about the instruments in memory *)

Completed(c) == loads[c].succeeded

\* instrumentsData is what one completed download was parsed to
FromOneDownload ==
    \E c \in LoadIds : Completed(c) /\ instrumentsData = parseCsv(loads[c].response)

LoadedFromOneDownload == instrumentsLoaded => FromOneDownload

\* a step of search_instruments or get_instrument_details that did not give up
\* for want of instruments was taken with instrumentsLoaded true, and what it
\* returned is in instrumentsData
ReadsOnlyWhenLoaded ==
    (lookup' # lookup)
       => /\ lookup'.returned.kind \in {"not_loaded", "not_found", "ok"}
          /\ lookup'.returned.kind # "not_loaded" => instrumentsLoaded
          /\ lookup'.returned.kind = "ok"
                => \A k \in 1..Len(lookup'.returned.results) :
                      \E j \in 1..Len(instrumentsData) :
                          lookup'.returned.results[k] = instrumentsData[j]

\* C30: under every interleaving of the startup loadInstruments with calls of
\* download_instruments_csv, in every reachable state instrumentsLoaded = true
\* implies that instrumentsData holds exactly the rows parsed from one
\* successfully completed download, never partial or mixed; and
\* search_instruments and get_instrument_details read instrumentsData only when
\* instrumentsLoaded is true.
C30_LoadedDataFromOneDownload ==
    [](LoadedFromOneDownload) /\ [][ReadsOnlyWhenLoaded]_vars

\* the startup load and a call of download_instruments_csv fetched different
\* texts; the call returned before the startup load was over, the instruments
\* are those of the startup load, and a search has found one of them
C30_Witness ==
    /\ instrumentsLoaded
    /\ Completed("startup") /\ Completed("first")
    /\ loads["first"].pc = "done"
    /\ loads["first"].result.kind = "ok"
    /\ loads["first"].result.total = 2
    /\ loads["startup"].response # loads["first"].response
    /\ Len(instrumentsData) = 2
    /\ instrumentsData = parseCsv(loads["startup"].response)
    /\ lookup.tool = "search_instruments"
    /\ lookup.returned.kind = "ok"
    /\ lookup.returned.results[1] = instrumentsData[2]

\* a download failed after another one was over: the instruments are there and
\* the tools refuse to read them
C30_WitnessNotLoaded ==
    /\ ~instrumentsLoaded
    /\ Completed("startup")
    /\ loads["first"].pc = "settled" /\ ~Completed("first")
    /\ Len(instrumentsData) = 2
    /\ lookup.tool = "get_instrument_details"
    /\ lookup.returned = NotLoaded

=============================================================================
